---- MODULE Spec2Model ----
(***************************************************************************)
(* Delivery reliability core of error-logger-sendSMS: RetryManager         *)
(* (retry loop + circuit breaker), the provider sends built on it, and the *)
(* ErrorLogger fan-out.                                                     *)
(*                                                                         *)
(* Execution model: one JavaScript event loop.  Every action below is one  *)
(* synchronous run of code between two suspension points (an await of the  *)
(* operation / HTTP post, an await of sleep, an await of allSettled).      *)
(* Time is the value of Date.now() in ms; it advances only by Tick.        *)
(***************************************************************************)
EXTENDS Integers, Sequences, FiniteSets, TLC

\* ---------------------------------------------------------------- bounds
MaxNowSeq == 300000      \* horizon of Date.now() for sequential calls
TickMs == 30000          \* granularity by which Date.now() advances
MaxCaps == 1             \* capture calls that may be pending at once
MaxSends == 2            \* executeWithRetry calls that may be pending at once
MaxNow == 60000          \* horizon of Date.now() for the ErrorLogger
MaxObjects == 2          \* SupabaseErrorLogger objects constructed over a run
MaxManagers == 2         \* RetryManagers constructed over a run
StreakLen == 5           \* length of the run of exhausted calls that is tracked

\* ------------------------------------------------------ program constants
ResetWindowMs == 60000
FailureThreshold == 5
DefaultMaxAttempts == 3
DefaultBaseDelay == 1000
DefaultMaxDelay == 30000
MinBaseDelay == 100
MaxProviders == 2
MinMaxAttempts == 1
MaxMaxAttempts == 5

VARIABLES
  now,        \* Date.now()
  rm,         \* sequence of RetryManager instances, in construction order
  call,       \* slot -> one executeWithRetry activation (locals + position)
  hist,       \* history of the manager under test (see NoHistory)
  config,     \* ConfigManager.config of the ErrorLogger
  sanitizer,  \* ErrorLogger.sanitizer (its configuration)
  providers,  \* ErrorLogger.providers
  cap,        \* activation -> one captureException / captureMessage call
  arg,        \* the arguments of the function or constructor being applied
  ret,        \* what it returned or threw
  supabase    \* the SupabaseErrorLogger class and its objects

vars == <<now, rm, call, hist, config, sanitizer, providers, cap,
          arg, ret, supabase>>

Slots == 1..MaxSends

\* ------------------------------------------------------------ error values
NoError == [msg |-> "none", n |-> 0]
CircuitOpenError == [msg |-> "Circuit breaker is open", n |-> 0]
RetryFailedError == [msg |-> "Retry failed", n |-> 0]
\* the error raised by the n-th invocation of the operation in one call
OpError(msg, n) == [msg |-> msg, n |-> n]

\* ------------------------------------------------------------ RetryPolicy
\* a partial object is a record that has only the fields that were given
NoFields == [k \in {} |-> k]
Has(partial, field) == field \in DOMAIN partial

\* the array that holds f[1], ..., f[n], every element computed
AsSeq(f) == SubSeq(f, 1, Len(f))

\* {...a, ...b}
Spread(a, b) ==
  [k \in (DOMAIN a) \cup (DOMAIN b) |-> IF k \in DOMAIN b THEN b[k] ELSE a[k]]

\* the defaults of "partial.x ?? default"
mergeRetryPolicy(partial) ==
  [ maxAttempts |-> IF Has(partial, "maxAttempts")
                      THEN partial.maxAttempts ELSE DefaultMaxAttempts,
    baseDelay |-> IF Has(partial, "baseDelay")
                    THEN partial.baseDelay ELSE DefaultBaseDelay,
    maxDelay |-> IF Has(partial, "maxDelay")
                   THEN partial.maxDelay ELSE DefaultMaxDelay,
    jitter |-> IF Has(partial, "jitter") THEN partial.jitter ELSE TRUE ]

\* ------------------------------------------------------------ JSON values
\* A value is a tagged record.  A string is a sequence of text fragments, so
\* that a regular-expression match is a fragment and its replacement is the
\* splice of the marker's fragments in its place.
Str(frags) == [t |-> "str", v |-> frags]
Num(n) == [t |-> "num", v |-> n]
Arr(items) == [t |-> "arr", v |-> items]
Obj(entries) == [t |-> "obj", v |-> entries]
Entry(key, val) == [k |-> key, val |-> val]
Undefined == [t |-> "undefined", v |-> <<>>]
Null == [t |-> "null", v |-> <<>>]
\* new Date(): typeof 'object', not an array, no own enumerable property
DateValue == [t |-> "date", v |-> <<>>]
Thrown == [t |-> "throw", v |-> <<>>]
IsThrown(x) == "t" \in DOMAIN x /\ x.t = "throw"

\* '[REDACTED]'
Marker == <<"[", "REDACTED", "]">>

\* obj[key] for a key that is one fragment
Get(obj, key) ==
  LET hits == {i \in 1..Len(obj.v) : obj.v[i].k = <<key>>} IN
  IF hits = {} THEN Undefined ELSE obj.v[CHOOSE i \in hits : TRUE].val

\* ------------------------------------------------------------ DataSanitizer
\* A pattern is the set of fragments of the model's texts it matches, and
\* whether its source compiles (new RegExp throws a SyntaxError otherwise).
Pattern(matches) == [valid |-> TRUE, matches |-> matches]
InvalidPattern == [valid |-> FALSE, matches |-> {}]

defaultPatterns ==
  << Pattern({"password", "passwd", "pwd", "Password"}),
     Pattern({"token", "bearer", "jwt", "api_key", "apiKey"}),
     Pattern({"secret", "private_key"}),
     Pattern({"user@example.com"}),
     Pattern({"4111-1111-1111-1111"}),
     Pattern({"123-45-6789"}) >>

sensitiveKeyPatterns == SubSeq(defaultPatterns, 1, 3)

mergeSanitizationConfig(partial) ==
  [ enabled |-> IF Has(partial, "enabled") THEN partial.enabled ELSE TRUE,
    customPatterns |-> IF Has(partial, "customPatterns")
                         THEN partial.customPatterns ELSE <<>>,
    excludeDefaults |-> IF Has(partial, "excludeDefaults")
                          THEN partial.excludeDefaults ELSE FALSE ]

\* new DataSanitizer(config): the same three defaults
DataSanitizer(partial) == mergeSanitizationConfig(partial)

\* str.replace(regex, '[REDACTED]') with the g flag
RECURSIVE Replace(_, _)
Replace(frags, pattern) ==
  IF frags = <<>> THEN <<>>
  ELSE (IF Head(frags) \in pattern.matches THEN Marker ELSE <<Head(frags)>>)
         \o Replace(Tail(frags), pattern)

RECURSIVE ReplaceEach(_, _)
ReplaceEach(frags, patterns) ==
  IF patterns = <<>> THEN frags
  ELSE ReplaceEach(Replace(frags, Head(patterns)), Tail(patterns))

AllCompile(patterns) == \A i \in 1..Len(patterns) : patterns[i].valid

sanitizeString(san, frags) ==
  IF ~AllCompile(san.customPatterns) THEN Thrown
  ELSE LET custom == ReplaceEach(frags, san.customPatterns) IN
       Str(IF san.excludeDefaults THEN custom
           ELSE ReplaceEach(custom, defaultPatterns))

\* regex.test(key)
Test(pattern, key) == \E i \in 1..Len(key) : key[i] \in pattern.matches

\* "yes" | "no" | "throw": the loops return at the first pattern that matches
RECURSIVE FirstMatch(_, _)
FirstMatch(patterns, key) ==
  IF patterns = <<>> THEN "no"
  ELSE IF ~Head(patterns).valid THEN "throw"
  ELSE IF Test(Head(patterns), key) THEN "yes"
  ELSE FirstMatch(Tail(patterns), key)

keyMatchesSensitivePattern_CustomOnly(san, key) ==
  FirstMatch(san.customPatterns, key)

keyMatchesSensitivePattern(san, key) ==
  LET custom == FirstMatch(san.customPatterns, key) IN
  IF custom # "no" THEN custom
  ELSE IF san.excludeDefaults THEN "no"
  ELSE FirstMatch(sensitiveKeyPatterns, key)

RECURSIVE sanitize(_, _)
sanitizeObject(san, obj) ==
  LET n == Len(obj.v)
      out == IF obj.t = "arr"
               THEN [i \in 1..n |-> sanitize(san, obj.v[i])]
               ELSE [i \in 1..n |->
                      LET km == keyMatchesSensitivePattern(san, obj.v[i].k) IN
                      IF km = "throw" THEN Thrown
                      ELSE IF km = "yes" THEN Entry(obj.v[i].k, Str(Marker))
                      ELSE LET val == sanitize(san, obj.v[i].val) IN
                           IF IsThrown(val) THEN Thrown
                           ELSE Entry(obj.v[i].k, val)]
  IN IF \E i \in 1..n : IsThrown(out[i]) THEN Thrown
     ELSE [t |-> IF obj.t = "arr" THEN "arr" ELSE "obj",
           v |-> AsSeq(out)]

sanitize_AlwaysOn(san, data) ==
  IF data.t = "str" THEN sanitizeString(san, data.v)
  ELSE IF data.t \in {"arr", "obj", "date"} THEN sanitizeObject(san, data)
  ELSE data

sanitize(san, data) ==
  IF ~san.enabled THEN data
  ELSE IF data.t = "str" THEN sanitizeString(san, data.v)
  ELSE IF data.t \in {"arr", "obj", "date"} THEN sanitizeObject(san, data)
  ELSE data

\* ------------------------------------------------------------ ConfigManager
\* A webhook configuration is represented by what the validations can tell
\* about it: "undefined" (no discord / slack object), "empty" (object without
\* webhookUrl), "http" (not https://), "otherhost" (https, foreign host),
\* "hostonly" (https and the platform's domain, but not the webhook path /
\* hooks host), "valid".
HasUrl(hook) == hook \notin {"undefined", "empty"}
IsHttps(hook) == hook \in {"otherhost", "hostonly", "valid"}
HasDomain(hook) == hook \in {"hostonly", "valid"}
HasWebhookHost(hook) == hook = "valid"

\* new ConfigManager(initialConfig): the merge with the defaults
InitialConfig(initial) ==
  [ enabled |-> IF Has(initial, "enabled") THEN initial.enabled ELSE TRUE,
    environment |-> IF Has(initial, "environment")
                      THEN initial.environment ELSE "development",
    discord |-> IF Has(initial, "discord") THEN initial.discord ELSE "undefined",
    slack |-> IF Has(initial, "slack") THEN initial.slack ELSE "undefined",
    retry |-> mergeRetryPolicy(IF Has(initial, "retry") THEN initial.retry
                               ELSE NoFields),
    sanitization |-> mergeSanitizationConfig(
                       IF Has(initial, "sanitization") THEN initial.sanitization
                       ELSE NoFields) ]

updateConfig_NoMerge(cfg, updates) == InitialConfig(updates)

\* updateConfig: the assignment to this.config
updateConfig(cfg, updates) ==
  [ Spread(cfg, updates) EXCEPT
      !.retry = IF Has(updates, "retry")
                  THEN mergeRetryPolicy(Spread(cfg.retry, updates.retry))
                  ELSE cfg.retry,
      !.sanitization =
         IF Has(updates, "sanitization")
           THEN mergeSanitizationConfig(
                  Spread(cfg.sanitization, updates.sanitization))
           ELSE cfg.sanitization ]

\* validate(): "ok" or the message of the error it throws
validate(cfg) ==
  IF cfg.discord = "undefined" /\ cfg.slack = "undefined"
    THEN "At least one provider (discord or slack) must be configured"
  ELSE IF HasUrl(cfg.discord) /\ ~IsHttps(cfg.discord)
    THEN "Discord webhook URL must use HTTPS"
  ELSE IF HasUrl(cfg.discord) /\ ~HasDomain(cfg.discord)
    THEN "Invalid Discord webhook URL"
  ELSE IF HasUrl(cfg.slack) /\ ~IsHttps(cfg.slack)
    THEN "Slack webhook URL must use HTTPS"
  ELSE IF HasUrl(cfg.slack) /\ ~HasDomain(cfg.slack)
    THEN "Invalid Slack webhook URL"
  ELSE IF cfg.retry.maxAttempts < MinMaxAttempts
          \/ cfg.retry.maxAttempts > MaxMaxAttempts
    THEN "maxAttempts must be between 1 and 5"
  ELSE IF cfg.retry.baseDelay < MinBaseDelay
    THEN "baseDelay must be at least 100ms"
  ELSE IF cfg.retry.maxDelay < cfg.retry.baseDelay
    THEN "maxDelay must be greater than or equal to baseDelay"
  ELSE "ok"

\* ------------------------------------------------------------ RetryManager
RetryManager(policy) ==
  [ policy |-> policy,
    failureCount |-> 0,
    circuitBreakerOpen |-> FALSE,
    lastFailureTime |-> 0 ]

BreakerRejects_Inclusive(m, t) ==
  m.circuitBreakerOpen /\ (t - m.lastFailureTime <= ResetWindowMs)

\* the entry test of executeWithRetry: flag set and window not yet elapsed
BreakerRejects(m, t) ==
  m.circuitBreakerOpen /\ (t - m.lastFailureTime < ResetWindowMs)

AfterBreakerCheck_KeepsCount(m) ==
  IF m.circuitBreakerOpen
    THEN [m EXCEPT !.circuitBreakerOpen = FALSE]
    ELSE m

\* manager after the entry test let the call through
AfterBreakerCheck(m) ==
  IF m.circuitBreakerOpen
    THEN [m EXCEPT !.circuitBreakerOpen = FALSE, !.failureCount = 0]
    ELSE m

AfterSuccess_KeepsCount(m) == m

\* manager after a successful attempt
AfterSuccess(m) == [m EXCEPT !.failureCount = 0]

\* manager after a failed attempt (the catch block)
AfterFailure(m) == [m EXCEPT !.failureCount = @ + 1]

AfterExhaustion_AtMaxAttempts(m, t) ==
  IF m.failureCount >= m.policy.maxAttempts
    THEN [m EXCEPT !.circuitBreakerOpen = TRUE, !.lastFailureTime = t]
    ELSE m

\* manager after the loop ran out of attempts
AfterExhaustion(m, t) ==
  IF m.failureCount >= FailureThreshold
    THEN [m EXCEPT !.circuitBreakerOpen = TRUE, !.lastFailureTime = t]
    ELSE m

LoopContinues_OffByOne(attempt, m) == attempt <= m.policy.maxAttempts

\* the for-loop condition
LoopContinues(attempt, m) == attempt < m.policy.maxAttempts

SleepsAfter_Never(attempt, m) == FALSE

\* "Don't delay after last attempt"
SleepsAfter(attempt, m) == attempt < m.policy.maxAttempts - 1

Backoff_Shrinking(baseDelay, attempt) == baseDelay \div (2 ^ attempt)

\* "this.policy.baseDelay * Math.pow(2, attempt)", in ms
Backoff(baseDelay, attempt) == baseDelay * (2 ^ attempt)

\* "Math.min(delay, this.policy.maxDelay)"
MathMin(a, b) == IF a < b THEN a ELSE b

calculateDelay_NoCap(policy, attempt, jitterPercent) ==
  Backoff(policy.baseDelay, attempt)
    * (IF policy.jitter THEN jitterPercent ELSE 100)

\* calculateDelay(attempt), in hundredths of a ms; jitterPercent is
\* 100 * (0.75 + Math.random() * 0.5), drawn only when policy.jitter is set
calculateDelay(policy, attempt, jitterPercent) ==
  LET delay == Backoff(policy.baseDelay, attempt) * 100
      jittered == IF policy.jitter
                    THEN Backoff(policy.baseDelay, attempt) * jitterPercent
                    ELSE delay
  IN MathMin(jittered, policy.maxDelay * 100)

\* the value thrown after the loop
ThrownAfterLoop(lastError) ==
  IF lastError = NoError THEN RetryFailedError ELSE lastError

\* ------------------------------------------------- one call's activation
\* pc: "free" | "inflight" (awaiting fn) | "sleeping" | "resolved" | "rejected"
\* attempt, lastError: the locals of executeWithRetry.
\* result / error: what the returned promise settled with (result = number of
\*   the invocation whose value is returned).
\* invoked, failed: history of this call (invocations of the operation, and
\*   how many of them failed).
\* owner, fallbacks: for a provider's send, the provider's name and the
\*   number of fallback reports sendWithFallback wrote.
\* onRetry: the caller gave the second argument; retries: the arguments of
\*   its invocations, in order.
FreeCall ==
  [ pc |-> "free", rm |-> 0, attempt |-> 0, lastError |-> NoError,
    result |-> 0, error |-> NoError,
    invoked |-> 0, failed |-> 0,
    owner |-> "direct", fallbacks |-> 0,
    onRetry |-> FALSE, retries |-> <<>> ]

OnRetryArgs_ZeroBased(attempt, lastError) == << attempt, lastError >>

\* "onRetry(attempt + 1, lastError)"
OnRetryArgs(attempt, lastError) == << attempt + 1, lastError >>

Settled(c) == c.pc \in {"resolved", "rejected"}
InFlight(c) == c.pc \in {"inflight", "sleeping"}
Reusable(c) == c.pc = "free" \/ Settled(c)

\* the loop head: test the condition with the current attempt, then either
\* invoke the operation ("await fn()") or leave the loop and throw
LoopHead(c, m, t) ==
  IF LoopContinues(c.attempt, m)
    THEN << [c EXCEPT !.pc = "inflight", !.invoked = c.invoked + 1], m >>
    ELSE << [c EXCEPT !.pc = "rejected", !.error = ThrownAfterLoop(c.lastError)],
            AfterExhaustion(m, t) >>

AfterRefusal_Restamps(m, t) == [m EXCEPT !.lastFailureTime = t]

\* the manager after "throw new Error('Circuit breaker is open')": the
\* refusal writes no field
AfterRefusal(m, t) == m

\* executeWithRetry from its entry to its first suspension, on manager id r.
\* Yields the pair <<call activation, manager>>.
Enter(r, m, t) ==
  LET c0 == [FreeCall EXCEPT !.rm = r] IN
  IF BreakerRejects(m, t)
    THEN << [c0 EXCEPT !.pc = "rejected", !.error = CircuitOpenError],
            AfterRefusal(m, t) >>
    ELSE LoopHead(c0, AfterBreakerCheck(m), t)

OnResolve_NoEarlyReturn(c, m) ==
  IF c.attempt + 1 < m.policy.maxAttempts
    THEN << [c EXCEPT !.result = c.invoked, !.attempt = c.attempt + 1,
                      !.invoked = c.invoked + 1],
            AfterSuccess(m) >>
    ELSE << [c EXCEPT !.pc = "resolved", !.result = c.invoked], AfterSuccess(m) >>

\* the awaited operation resolved: "this.failureCount = 0; return result"
OnResolve(c, m) ==
  << [c EXCEPT !.pc = "resolved", !.result = c.invoked], AfterSuccess(m) >>

\* the awaited operation rejected with err: the catch block; without a sleep
\* the loop goes straight on to attempt++ and its head
OnReject(c, m, err, t) ==
  LET m2 == AfterFailure(m)
      c2 == [c EXCEPT !.lastError = err, !.failed = c.failed + 1,
                      !.retries = IF c.onRetry
                                    THEN Append(@, OnRetryArgs(c.attempt, err))
                                    ELSE @] IN
  IF SleepsAfter(c.attempt, m2)
    THEN << [c2 EXCEPT !.pc = "sleeping"], m2 >>
    ELSE LoopHead([c2 EXCEPT !.attempt = c.attempt + 1], m2, t)

\* the sleep ended: attempt++ and the loop head
OnWake(c, m, t) == LoopHead([c EXCEPT !.attempt = c.attempt + 1], m, t)

\* resetCircuitBreaker()
AfterReset(m) == [m EXCEPT !.circuitBreakerOpen = FALSE, !.failureCount = 0]

\* --------------------------------------------------------------- history
\* streak: consecutive executeWithRetry calls that exhausted their attempts
\* openedAt: Date.now() of the latest Closed -> Open transition, -1 if none
\* entryAt, entryStreak, entryOpenedAt: the clock, streak and openedAt at the
\*   moment the latest call was made
\* failedProviders: the providers that had a transmission of their own fail
\* configure: how the latest configure call ended, "none" | "returned" | "threw"
\* halfOpened: some call was let through with the breaker open
\* run: the attempts that failed since the latest of: such an entry, a
\*   successful attempt, a resetCircuitBreaker call
NoHistory ==
  [ streak |-> 0, openedAt |-> -1,
    entryAt |-> 0, entryStreak |-> 0, entryOpenedAt |-> -1,
    failedProviders |-> {}, configure |-> "none",
    halfOpened |-> FALSE, run |-> 0 ]

\* history when a call is made on manager m at time t
AfterEntry(h, m, t) ==
  IF m.circuitBreakerOpen /\ t - h.openedAt >= ResetWindowMs
    THEN [h EXCEPT !.halfOpened = TRUE, !.run = 0]
    ELSE h

AtEntry(h, t) ==
  [h EXCEPT !.entryAt = t, !.entryStreak = h.streak, !.entryOpenedAt = h.openedAt]

Opens(m, m2) == m2.circuitBreakerOpen /\ ~m.circuitBreakerOpen

Exhausted(c) == c.pc = "rejected" /\ c.error # CircuitOpenError

HistAfter(h, c2, m, m2, t) ==
  [ h EXCEPT
    !.streak = IF c2.pc = "resolved" \/ (c2.pc = "rejected" /\ ~Exhausted(c2))
                 THEN 0
                 ELSE IF Exhausted(c2) /\ h.streak < StreakLen
                        THEN h.streak + 1 ELSE h.streak,
    !.openedAt = IF Opens(m, m2) THEN t ELSE h.openedAt ]

\* ------------------------------------------------------------------ time
Tick(step, maxNow) ==
  /\ now + step <= maxNow
  /\ now' = now + step

\* ---------------------------------------------------------------- providers
validateConfig_DomainOnly(hook) == HasUrl(hook) /\ IsHttps(hook) /\ HasDomain(hook)

\* DiscordProvider / SlackProvider .validateConfig()
validateConfig(hook) == HasUrl(hook) /\ IsHttps(hook) /\ HasWebhookHost(hook)

Provider(name, r) == [name |-> name, retryManager |-> r]

\* initializeProviders(config), r being the id of the RetryManager it has
\* just constructed: the provider list it leaves behind and whether a
\* provider constructor threw
initializeProviders(cfg, r) ==
  LET discordOk == validateConfig(cfg.discord)
      slackOk == validateConfig(cfg.slack)
      d == IF cfg.discord # "undefined" /\ discordOk
             THEN << Provider("Discord", r) >> ELSE <<>>
      threwAtDiscord == cfg.discord # "undefined" /\ ~discordOk
      sl == IF ~threwAtDiscord /\ cfg.slack # "undefined" /\ slackOk
              THEN << Provider("Slack", r) >> ELSE <<>>
      threwAtSlack == ~threwAtDiscord /\ cfg.slack # "undefined" /\ ~slackOk
  IN [ providers |-> d \o sl, threw |-> threwAtDiscord \/ threwAtSlack ]

\* ------------------------------------------------------------ construction
\* what a call has produced so far
Pending == [t |-> "pending", v |-> <<>>]
Returned == [t |-> "returned", v |-> <<>>]
Throw(msg) == [t |-> "throw", v |-> << msg >>]

\* mergeConfigs(envConfig, userConfig): "a || b" and "a !== undefined ? a : b"
\* field by field; retry and sanitization come from the user configuration only
mergeConfigs(envConfig, userConfig) ==
  LET pick(k) == IF Has(userConfig, k) THEN userConfig[k] ELSE envConfig[k]
      both == {"discord", "slack", "enabled", "environment"}
      userOnly == {"retry", "sanitization"}
      keys == {k \in both : Has(userConfig, k) \/ Has(envConfig, k)}
                \cup {k \in userOnly : Has(userConfig, k)}
  IN [k \in keys |-> pick(k)]

\* new ErrorLogger(userConfig) with envConfig being what loadFromEnvironment
\* finds: the outcome and the fields of the object
NewErrorLogger(envConfig, userConfig) ==
  LET cfg == InitialConfig(mergeConfigs(envConfig, userConfig))
      checked == validate(cfg)
      built == initializeProviders(cfg, 1)
      threwAt == IF built.threw /\ Len(built.providers) = 0
                      /\ cfg.discord # "undefined"
                   THEN "Discord" ELSE "Slack"
  IN [ ret |-> IF checked # "ok" THEN Throw(checked)
               ELSE IF built.threw
                 THEN Throw("Invalid " \o threwAt \o " configuration")
               ELSE Returned,
       config |-> cfg,
       sanitizer |-> DataSanitizer(cfg.sanitization),
       rm |-> << RetryManager(mergeRetryPolicy(cfg.retry)) >>,
       providers |-> built.providers ]

\* new DiscordProvider(config, retryManager) / new SlackProvider(...)
NewProvider(name, hook) ==
  IF hook = "undefined"
    THEN Throw("Cannot read properties of undefined")
  ELSE IF validateConfig(hook) THEN Returned
  ELSE Throw("Invalid " \o name \o " configuration")

\* the HTTP exchange of one transmission: what axios.post yields
Responses ==
  { [status |-> 204, data |-> ""],
    [status |-> 200, data |-> "ok"],
    [status |-> 200, data |-> "invalid_payload"],
    [status |-> 500, data |-> "error"],
    [status |-> 0, data |-> "ECONNREFUSED"] }

Is2xx(resp) == resp.status >= 200 /\ resp.status < 300

\* the error of a failed transmission, identified by the provider and the
\* number of the invocation that raised it
TransmitError(name, resp, n) == OpError(name \o " transmission failed", n)

\* -------------------------------------------------------------- ErrorLogger
\* one captureException / captureMessage activation
\* pc: "free" | "awaiting" (Promise.allSettled) | "resolved" | "rejected"
\* notification: the object the capture method built; sent: the object every
\* provider.send of this capture was given; sends: the slots of those sends;
\* sanitizer, enabled, sanitizeCalls: the sanitizer and the enabled flag the
\* call read, and how often it called sanitize; fresh: every provider's
\* RetryManager was as newly constructed when the call was made.
FreeCapture ==
  [ pc |-> "free", notification |-> Undefined, sanitizer |-> DataSanitizer(NoFields),
    enabled |-> FALSE, fresh |-> FALSE, sanitizeCalls |-> 0,
    sent |-> Undefined, sends |-> <<>> ]

CaptureDone(k) == k.pc \in {"free", "resolved", "rejected"}

\* the slots that hold the sends of the pending captures
HeldSlots(caps) ==
  UNION { {caps[c].sends[i] : i \in 1..Len(caps[c].sends)} :
          c \in {b \in DOMAIN caps : ~CaptureDone(caps[b])} }

\* the k lowest slots of a set, in increasing order
RECURSIVE Lowest(_, _)
Lowest(free, k) ==
  IF k = 0 THEN <<>>
  ELSE LET low == CHOOSE s \in free : \A u \in free : s <= u IN
       << low >> \o Lowest(free \ {low}, k - 1)

\* the notification objects the two capture methods build
MessageNotification(in, t, env) ==
  Obj(<< Entry(<<"message">>, Str(in.message)),
         Entry(<<"severity">>, Str(<<in.level>>)),
         Entry(<<"timestamp">>, Str(<<ToString(t)>>)),
         Entry(<<"metadata">>, in.metadata),
         Entry(<<"environment">>, Str(<<env>>)) >>)

ExceptionNotification(in, t, env) ==
  Obj(<< Entry(<<"message">>, Str(in.message)),
         Entry(<<"severity">>, Str(<<"error">>)),
         Entry(<<"timestamp">>, Str(<<ToString(t)>>)),
         Entry(<<"stack">>, Str(<<"Error: ">> \o in.message \o <<" at <stack>">>)),
         Entry(<<"metadata">>, in.metadata),
         Entry(<<"environment">>, Str(<<env>>)) >>)

SendArgument_Unsanitized(notification, sanitizedNotification) == notification

\* what the map callback hands to provider.send
SendArgument(notification, sanitizedNotification) == sanitizedNotification

SendNotificationOutcome_Propagates(sendStates) ==
  IF \E i \in DOMAIN sendStates : sendStates[i] = "rejected"
    THEN "rejected" ELSE "resolved"

\* how sendNotification's promise settles once every send has settled: the
\* callback catches each rejection and allSettled never rejects
SendNotificationOutcome(sendStates) == "resolved"

LoggingEnabled_Ignored(cfg) == TRUE

\* "if (!config.enabled) return" lets the call through
LoggingEnabled(cfg) == cfg.enabled

\* no function is being applied
NoArg == [fn |-> "none"]

\* ----------------------------------------------------- SupabaseErrorLogger
\* one captureException / captureMessage activation of a SupabaseErrorLogger
\* pc: "free" | "awaiting" (the fetch) | "resolved" | "rejected"
\* transmitted: fetch('/api/error-log') was called; reported: console.error
\* asked, untouched, wanted: see NoSupabase, as they were when the call was made
NoSupabaseCapture ==
  [ pc |-> "free", level |-> "none", transmitted |-> FALSE, reported |-> FALSE,
    asked |-> NoFields, untouched |-> FALSE, wanted |-> "unset",
    response |-> "none" ]

\* the SupabaseErrorLogger module just loaded
\* instance: the static field, an index into objects, 0 for null
\* objects: the objects constructed so far: config, and wanted, what the
\*   latest configure call on the object that named enabled gave it:
\*   "on" | "off", "unset" before any
\* logger: the object the latest new-expression evaluated to, 0 before
\* asked: the argument of that new-expression
\* untouched: no configure call was made since that new-expression
NoSupabase ==
  [ instance |-> 0, objects |-> <<>>, logger |-> 0, asked |-> NoFields,
    untouched |-> FALSE, capture |-> NoSupabaseCapture ]

\* defaultConfig of the constructor
SupabaseDefaults ==
  [ supabaseUrl |-> "", supabaseKey |-> "",
    tableName |-> "promptflowt_error_logs", enabled |-> TRUE,
    environment |-> "development", logLevel |-> "debug" ]

SupabaseMerge_Replace(cfg, partial) == Spread(SupabaseDefaults, partial)

\* {...this.config, ...config}
SupabaseMerge(cfg, partial) == Spread(cfg, partial)

\* new SupabaseErrorLogger(cfg): the constructor returns the existing
\* instance when there is one, else it initialises this and registers it
SupabaseNew(sb, cfg) ==
  IF sb.instance # 0
    THEN [sb EXCEPT !.logger = sb.instance, !.asked = cfg, !.untouched = TRUE]
    ELSE [sb EXCEPT
            !.objects = Append(@, [ config |-> SupabaseMerge(SupabaseDefaults, cfg),
                                    wanted |-> "unset" ]),
            !.instance = Len(sb.objects) + 1,
            !.logger = Len(sb.objects) + 1,
            !.asked = cfg,
            !.untouched = TRUE]

\* logger.configure(partial)
SupabaseConfigured(sb, partial) ==
  [sb EXCEPT
     !.objects[sb.logger].config = SupabaseMerge(@, partial),
     !.objects[sb.logger].wanted =
        IF ~Has(partial, "enabled") THEN @
        ELSE IF partial.enabled THEN "on" ELSE "off",
     !.untouched = FALSE]

SupabaseEnabled_Ignored(cfg) == TRUE

\* "if (!this.config.enabled) return" lets the call through
SupabaseEnabled(cfg) == cfg.enabled

\* captureException / captureMessage up to the await of fetch
SupabaseCaptured(sb, level) ==
  LET this == sb.objects[sb.logger]
      made == [NoSupabaseCapture EXCEPT
                 !.level = level, !.asked = sb.asked,
                 !.untouched = sb.untouched, !.wanted = this.wanted]
  IN [sb EXCEPT !.capture =
        IF SupabaseEnabled(this.config)
          THEN [made EXCEPT !.pc = "awaiting", !.transmitted = TRUE]
          ELSE [made EXCEPT !.pc = "resolved"]]

\* what the fetch and response.json() yield
SupabaseResponses == {"ok", "not ok", "success false", "throws"}

SupabaseSettled_Propagates(sb, response) ==
  [sb EXCEPT !.capture.response = response,
             !.capture.pc = IF response = "throws" THEN "rejected"
                            ELSE "resolved",
             !.capture.reported = (response \in {"not ok", "success false"})]

\* the rest of the capture: "!response.ok || !result.success" is written to
\* the console, and so is what the catch caught; the promise resolves
SupabaseSettled(sb, response) ==
  [sb EXCEPT !.capture.response = response,
             !.capture.pc = "resolved",
             !.capture.reported =
                \/ response = "throws"
                \/ response \in {"not ok", "success false"}]

\* ------------------------------------------- direct, sequential use (tests)
\* new RetryManager({maxAttempts: n}) for every n the policy allows
InitSeq ==
  /\ now = 0
  /\ \E n \in MinMaxAttempts..MaxMaxAttempts :
       rm = << RetryManager(mergeRetryPolicy([maxAttempts |-> n])) >>
  /\ call = AsSeq([s \in Slots |-> FreeCall])
  /\ hist = NoHistory
  /\ config = InitialConfig(NoFields)
  /\ sanitizer = DataSanitizer(NoFields)
  /\ providers = <<>>
  /\ cap = AsSeq([c \in 1..MaxCaps |-> FreeCapture])
  /\ arg = NoArg
  /\ ret = Undefined
  /\ supabase = NoSupabase

SeqStep(e, h) ==
  /\ call' = [call EXCEPT ![1] = e[1]]
  /\ rm' = [rm EXCEPT ![1] = e[2]]
  /\ hist' = HistAfter(h, e[1], rm[1], e[2], now)
  /\ UNCHANGED <<now, config, sanitizer, providers, cap, arg, ret, supabase>>

\* manager.executeWithRetry(fn), issued when no other call is pending
SeqCall ==
  \E given \in BOOLEAN :
    LET e == Enter(1, rm[1], now) IN
    /\ \A s \in Slots : ~InFlight(call[s])
    /\ SeqStep(<< [e[1] EXCEPT !.onRetry = given], e[2] >>,
               AfterEntry(AtEntry(hist, now), rm[1], now))

\* fn() resolves with its value
SeqOpResolves ==
  /\ call[1].pc = "inflight"
  /\ SeqStep(OnResolve(call[1], rm[1]), [hist EXCEPT !.run = 0])

\* fn() rejects
SeqOpRejects ==
  /\ call[1].pc = "inflight"
  /\ SeqStep(OnReject(call[1], rm[1],
                      OpError("operation failed", call[1].invoked), now),
             [hist EXCEPT !.run = @ + 1])

\* the setTimeout of sleep fires
SeqWake ==
  /\ call[1].pc = "sleeping"
  /\ SeqStep(OnWake(call[1], rm[1], now), hist)

\* manager.resetCircuitBreaker(), between calls
SeqReset ==
  /\ \A s \in Slots : ~InFlight(call[s])
  /\ rm[1].circuitBreakerOpen \/ rm[1].failureCount > 0
  /\ rm' = [rm EXCEPT ![1] = AfterReset(rm[1])]
  /\ hist' = [hist EXCEPT !.streak = 0, !.run = 0]
  /\ UNCHANGED <<now, call, config, sanitizer, providers, cap,
                 arg, ret, supabase>>

SeqTick ==
  /\ Tick(TickMs, MaxNowSeq)
  /\ UNCHANGED <<rm, call, hist, config, sanitizer, providers, cap,
                 arg, ret, supabase>>

NextSeq ==
  SeqCall \/ SeqOpResolves \/ SeqOpRejects \/ SeqWake \/ SeqReset \/ SeqTick

SpecSeq == InitSeq /\ [][NextSeq]_vars

\* ------------------------------------------------- ErrorLogger operations
\* the sends of a capture to providers i.., each run up to its first
\* suspension (the entry test and the first post) in provider order;
\* slots[i] holds the send to the i-th provider.  Yields <<call, rm>>.
RECURSIVE FanOut(_, _, _, _)
FanOut(i, slots, calls, mgrs) ==
  IF i > Len(providers) THEN << calls, mgrs >>
  ELSE LET p == providers[i]
           e == Enter(p.retryManager, mgrs[p.retryManager], now)
           send == [e[1] EXCEPT !.owner = p.name, !.onRetry = TRUE]
       IN FanOut(i + 1, slots,
                 [calls EXCEPT ![slots[i]] = send],
                 [mgrs EXCEPT ![p.retryManager] = e[2]])

\* The records of finished captures and of their sends, and the counters of
\* managers that no provider and no pending send refers to any more, are
\* kept only until the next capture call begins.
Forget(caps) ==
  AsSeq([c \in DOMAIN caps |->
           IF CaptureDone(caps[c]) THEN FreeCapture ELSE caps[c]])

ForgetSends(calls, caps) ==
  AsSeq([s \in Slots |-> IF s \in HeldSlots(caps) THEN calls[s] ELSE FreeCall])

Collect(mgrs, calls) ==
  AsSeq([r \in DOMAIN mgrs |->
     IF (\E i \in 1..Len(providers) : providers[i].retryManager = r)
        \/ (\E s \in Slots : InFlight(calls[s]) /\ calls[s].rm = r)
       THEN mgrs[r]
       ELSE RetryManager(mgrs[r].policy)])

\* sendNotification(notification) up to its await, for the activation c
sendNotification(c, notification) ==
  LET kept == ForgetSends(call, cap)
      mgrs == Collect(rm, kept)
      started == [FreeCapture EXCEPT
                    !.notification = notification,
                    !.sanitizer = sanitizer,
                    !.enabled = config.enabled,
                    !.fresh = \A i \in 1..Len(providers) :
                                LET r == providers[i].retryManager IN
                                rm[r] = RetryManager(rm[r].policy)]
  IN
  IF ~LoggingEnabled(config)
    THEN /\ cap' = [Forget(cap) EXCEPT ![c] = [started EXCEPT !.pc = "awaiting"]]
         /\ call' = kept
         /\ rm' = mgrs
    ELSE LET sanitizedNotification == sanitize(sanitizer, notification) IN
         IF IsThrown(sanitizedNotification)
           THEN /\ cap' = [Forget(cap) EXCEPT
                             ![c] = [started EXCEPT !.pc = "rejected",
                                                    !.sanitizeCalls = 1]]
                /\ call' = kept
                /\ rm' = mgrs
           ELSE LET free == Slots \ HeldSlots(cap) IN
                /\ Cardinality(free) >= Len(providers)
                /\ LET slots == Lowest(free, Len(providers))
                       f == FanOut(1, slots, kept, mgrs)
                   IN /\ cap' = [Forget(cap) EXCEPT
                                   ![c] = [started EXCEPT
                                             !.pc = "awaiting",
                                             !.sanitizeCalls = 1,
                                             !.sent = SendArgument(
                                                        notification,
                                                        sanitizedNotification),
                                             !.sends = slots]]
                      /\ call' = f[1]
                      /\ rm' = f[2]

\* the activation a new capture call uses: the first one that is not pending
NextCapture(c) ==
  /\ CaptureDone(cap[c])
  /\ \A b \in 1..(c - 1) : ~CaptureDone(cap[b])

MessageInputs ==
  { [ message |-> <<"User logged in">>, level |-> "info",
      metadata |-> Obj(<< Entry(<<"password">>, Str(<<"abc123">>)) >>) ] }

ExceptionInputs ==
  { [ message |-> <<"Invalid ", "token", " for ", "user@example.com">>,
      metadata |-> Undefined ] }

\* logger.captureMessage(message, level, metadata)
CaptureMessage ==
  \E c \in 1..MaxCaps, in \in MessageInputs :
    /\ NextCapture(c)
    /\ sendNotification(c, MessageNotification(in, now, config.environment))
    /\ UNCHANGED <<now, hist, config, sanitizer, providers, arg, ret, supabase>>

\* logger.captureException(error, metadata)
CaptureException ==
  \E c \in 1..MaxCaps, in \in ExceptionInputs :
    /\ NextCapture(c)
    /\ sendNotification(c, ExceptionNotification(in, now, config.environment))
    /\ UNCHANGED <<now, hist, config, sanitizer, providers, arg, ret, supabase>>

Accepts_StatusOnly(name, resp) == Is2xx(resp)

\* does the send function given to sendWithFallback return normally
Accepts(name, resp) ==
  IF name = "Slack" THEN Is2xx(resp) /\ resp.data = "ok" ELSE Is2xx(resp)

\* the send c on manager m gets the response resp to its post.  On a failure
\* sendWithFallback writes the notification to the console and rethrows,
\* then the catch block of executeWithRetry runs.  Yields <<call, manager>>.
PostOutcome(c, m, resp, t) ==
  IF Accepts(c.owner, resp)
    THEN OnResolve(c, m)
    ELSE OnReject([c EXCEPT !.fallbacks = @ + 1], m,
                  TransmitError(c.owner, resp, c.invoked), t)

ManagerOf_Latest(c) == Len(rm)

\* "this.retryManager" of the provider object whose send c is: the manager
\* the provider was constructed with
ManagerOf(c) == c.rm

\* the post of the send in slot s completes with a response
Transmit ==
  \E s \in Slots, resp \in Responses :
    /\ call[s].pc = "inflight"
    /\ call[s].owner # "direct"
    /\ LET r == ManagerOf(call[s])
           e == PostOutcome(call[s], rm[r], resp, now)
       IN /\ call' = [call EXCEPT ![s] = e[1]]
          /\ rm' = [rm EXCEPT ![r] = e[2]]
          /\ hist' = IF Accepts(call[s].owner, resp) THEN hist
                     ELSE [hist EXCEPT !.failedProviders = @ \cup {call[s].owner}]
    /\ UNCHANGED <<now, config, sanitizer, providers, cap, arg, ret, supabase>>

\* the sleep of the send in slot s ends
Wake ==
  \E s \in Slots :
    /\ call[s].pc = "sleeping"
    /\ call[s].owner # "direct"
    /\ LET r == ManagerOf(call[s])
           e == OnWake(call[s], rm[r], now)
       IN /\ call' = [call EXCEPT ![s] = e[1]]
          /\ rm' = [rm EXCEPT ![r] = e[2]]
    /\ UNCHANGED <<now, hist, config, sanitizer, providers, cap,
                   arg, ret, supabase>>

AllSettled_Any(sends) ==
  \E i \in 1..Len(sends) : Settled(call[sends[i]])

\* the promise of Promise.allSettled(sendPromises) is fulfilled
AllSettled(sends) ==
  \A i \in 1..Len(sends) : Settled(call[sends[i]])

\* await Promise.allSettled(sendPromises) returns
CaptureSettle ==
  \E c \in 1..MaxCaps :
    /\ cap[c].pc = "awaiting"
    /\ AllSettled(cap[c].sends)
    /\ cap' = [cap EXCEPT ![c].pc =
                 SendNotificationOutcome(
                   [i \in 1..Len(cap[c].sends) |-> call[cap[c].sends[i]].pc])]
    /\ UNCHANGED <<now, hist, config, sanitizer, providers, call, rm,
                   arg, ret, supabase>>

Partials ==
  { [enabled |-> FALSE], [enabled |-> TRUE],
    [enabled |-> TRUE, slack |-> "valid"],
    [slack |-> "http"], [slack |-> "hostonly"] }

Rebuilt_KeepsBreaker(mgrs, policy) ==
  Append(mgrs, [mgrs[Len(mgrs)] EXCEPT !.policy = policy])

\* "const retryManager = new RetryManager(config.retry)" of
\* initializeProviders: a further manager, the earlier ones stay with the
\* provider objects and the sends that hold them
Rebuilt(mgrs, policy) == Append(mgrs, RetryManager(policy))

\* logger.configure(partial): updateConfig assigns the merged configuration
\* and then validates it; the sanitizer and the providers are rebuilt only
\* when validate returned, and initializeProviders empties the provider list
\* and constructs the RetryManager before it constructs a provider
ConfigureWith(partial) ==
  LET merged == updateConfig(config, partial)
      r == Len(rm) + 1
      built == initializeProviders(merged, r)
  IN /\ config' = merged
     /\ IF validate(merged) # "ok"
          THEN /\ UNCHANGED <<sanitizer, providers, rm>>
               /\ hist' = [hist EXCEPT !.configure = "threw"]
          ELSE /\ Len(rm) < MaxManagers
               /\ sanitizer' = DataSanitizer(merged.sanitization)
               /\ rm' = Rebuilt(rm, mergeRetryPolicy(merged.retry))
               /\ providers' = built.providers
               /\ hist' = [hist EXCEPT !.configure =
                             IF built.threw THEN "threw" ELSE "returned"]
     /\ UNCHANGED <<now, call, cap, arg, ret, supabase>>

Configure == \E partial \in Partials : ConfigureWith(partial)

LoggerTick ==
  /\ Tick(ResetWindowMs, MaxNow)
  /\ UNCHANGED <<hist, config, sanitizer, providers, call, cap, rm,
                 arg, ret, supabase>>

ConstructorConfigs ==
  { Spread(Spread(Spread([discord |-> "valid"], a), b), c) :
      a \in {NoFields, [slack |-> "valid"]},
      b \in {NoFields, [enabled |-> FALSE]},
      c \in { NoFields,
              [retry |-> [maxAttempts |-> 5]],
              [sanitization |-> [customPatterns |-> << InvalidPattern >>]] } }

\* new ErrorLogger(config) that returned normally
Init ==
  /\ now = 0
  /\ hist = NoHistory
  /\ call = AsSeq([s \in Slots |-> FreeCall])
  /\ cap = AsSeq([c \in 1..MaxCaps |-> FreeCapture])
  /\ arg = NoArg
  /\ ret = Undefined
  /\ supabase = NoSupabase
  /\ \E user \in ConstructorConfigs :
       LET new == NewErrorLogger(NoFields, user) IN
       /\ new.ret = Returned
       /\ config = new.config
       /\ sanitizer = new.sanitizer
       /\ rm = new.rm
       /\ providers = new.providers

Next ==
  \/ CaptureMessage
  \/ CaptureException
  \/ Transmit
  \/ Wake
  \/ CaptureSettle
  \/ Configure
  \/ LoggerTick

Spec == Init /\ [][Next]_vars

\* Every post ends (axios is given timeout: 5000), every timer of sleep
\* fires, and the continuation of a fulfilled promise runs.
Fairness ==
  /\ \A s \in Slots :
       /\ WF_vars(Transmit /\ call[s].pc = "inflight" /\ call'[s] # call[s])
       /\ WF_vars(Wake /\ call[s].pc = "sleeping" /\ call'[s] # call[s])
  /\ WF_vars(CaptureSettle)

SpecLive == Spec /\ Fairness

\* ------------------------------------------- constructors and pure functions
Hooks == {"undefined", "empty", "http", "otherhost", "hostonly", "valid"}

WithHook(k, hook) == IF hook = "undefined" THEN NoFields ELSE [h \in {k} |-> hook]

\* the configurations handed to the constructor and found in the environment
UserConfigs ==
  { Spread(Spread(WithHook("discord", d), WithHook("slack", s)), r) :
      d \in Hooks, s \in Hooks,
      r \in { NoFields, [retry |-> [maxAttempts |-> 5]],
               [retry |-> [maxAttempts |-> 6]], [enabled |-> FALSE] } }

EnvConfigs == { NoFields, [discord |-> "valid"], [slack |-> "http"] }

\* the configurations handed to new DataSanitizer
SanitizerConfigs ==
  { Spread(Spread(a, b), c) :
      a \in {NoFields, [enabled |-> FALSE]},
      b \in {NoFields, [excludeDefaults |-> TRUE]},
      c \in { NoFields,
              [customPatterns |-> << Pattern({"hello", "ssn"}) >>],
              [customPatterns |-> << Pattern({"REDACTED"}) >>],
              [customPatterns |-> << InvalidPattern >>] } }

\* {a: {b: 'x'}}
Nested == Obj(<< Entry(<<"a">>, Obj(<< Entry(<<"b">>, Str(<<"x">>)) >>)) >>)

\* the values handed to sanitize
JsonInputs ==
  { Str(<<"hello world">>),
    Str(<<"my ", "password", " is 4111-1111-1111-1111">>),
    Str(<<"mail ", "user@example.com", " or ", "token">>),
    Str(Marker),
    Num(42),
    Undefined,
    Arr(<<>>),
    Arr(<< Str(<<"secret">>), Num(7), Obj(<< Entry(<<"pwd">>, Num(1)) >>) >>),
    Obj(<< Entry(<<"password">>, Nested) >>),
    Obj(<< Entry(<<"user", "Password">>, Str(<<"abc123">>)),
           Entry(<<"api_key">>, Num(123)),
           Entry(<<"jwt">>, Arr(<< Str(<<"x">>) >>)),
           Entry(<<"name">>, Str(<<"bob ", "123-45-6789">>)) >>),
    Obj(<< Entry(<<"meta">>,
                 Obj(<< Entry(<<"ssn">>, Nested),
                        Entry(<<"count">>, Num(3)),
                        Entry(<<"tags">>,
                              Arr(<< Str(<<"hello">>), Str(<<"bearer">>) >>))
                     >>)),
           Entry(<<"note">>, Str(<<"[", "REDACTED", "]", " twice">>)) >>),
    Obj(<< Entry(<<"user">>,
                 Obj(<< Entry(<<"name">>, Str(<<"John">>)),
                        Entry(<<"credentials">>,
                              Obj(<< Entry(<<"password">>,
                                           Str(<<"secret">>)) >>)) >>)),
           Entry(<<"retries">>, Null),
           Entry(<<"createdAt">>, DateValue) >>) }

\* retry policies: the defaults, and the ranges of the data model with the
\* cap reached early, late and never
RetryPolicies ==
  { NoFields } \cup
  { [maxAttempts |-> n, baseDelay |-> b, maxDelay |-> m, jitter |-> j] :
      n \in MinMaxAttempts..MaxMaxAttempts,
      b \in {MinBaseDelay, 1000, 10000},
      m \in {1000, 30000},
      j \in BOOLEAN }

\* values of 100 * (0.75 + Math.random() * 0.5), Math.random() in [0, 1)
JitterPercents == {75, 90, 100, 110, 124}

InitFn ==
  /\ now = 0
  /\ rm = <<>>
  /\ call = AsSeq([s \in Slots |-> FreeCall])
  /\ hist = NoHistory
  /\ config = InitialConfig(NoFields)
  /\ providers = <<>>
  /\ cap = AsSeq([c \in 1..MaxCaps |-> FreeCapture])
  /\ supabase = NoSupabase
  /\ ret = Pending
  /\ \/ \E e \in EnvConfigs, u \in UserConfigs :
          /\ arg = [fn |-> "ErrorLogger", env |-> e, user |-> u]
          /\ sanitizer = DataSanitizer(NoFields)
     \/ \E name \in {"Discord", "Slack"}, hook \in Hooks :
          /\ arg = [fn |-> "Provider", name |-> name, hook |-> hook]
          /\ sanitizer = DataSanitizer(NoFields)
     \/ \E san \in SanitizerConfigs, data \in JsonInputs :
          /\ arg = [fn |-> "sanitize", pass |-> 1, data |-> data]
          /\ sanitizer = DataSanitizer(san)
     \/ \E p \in RetryPolicies :
          /\ arg = [fn |-> "calculateDelay", policy |-> mergeRetryPolicy(p)]
          /\ sanitizer = DataSanitizer(NoFields)

\* new ErrorLogger(arg.user): the fields are those of the object when the
\* constructor returned; when it threw there is no object
ConstructErrorLogger ==
  /\ arg.fn = "ErrorLogger" /\ ret.t = "pending"
  /\ LET new == NewErrorLogger(arg.env, arg.user) IN
       /\ ret' = new.ret
       /\ IF new.ret = Returned
            THEN /\ config' = new.config
                 /\ sanitizer' = new.sanitizer
                 /\ rm' = new.rm
                 /\ providers' = new.providers
            ELSE UNCHANGED <<config, sanitizer, rm, providers>>
  /\ UNCHANGED <<now, call, hist, cap, arg, supabase>>

\* new DiscordProvider(...) / new SlackProvider(...) on its own
ConstructProvider ==
  /\ arg.fn = "Provider" /\ ret.t = "pending"
  /\ ret' = NewProvider(arg.name, arg.hook)
  /\ UNCHANGED <<now, rm, call, hist, config, sanitizer, providers, cap,
                 arg, supabase>>

\* sanitizer.sanitize(arg.data)
Sanitize ==
  /\ arg.fn = "sanitize" /\ ret.t = "pending"
  /\ ret' = sanitize(sanitizer, arg.data)
  /\ UNCHANGED <<now, rm, call, hist, config, sanitizer, providers, cap,
                 arg, supabase>>

\* sanitizer.sanitize(ret), ret being what the first call returned
SanitizeAgain ==
  /\ arg.fn = "sanitize" /\ arg.pass = 1
  /\ ret.t \notin {"pending", "throw"}
  /\ arg' = [fn |-> "sanitize", pass |-> 2, data |-> ret]
  /\ ret' = sanitize(sanitizer, ret)
  /\ UNCHANGED <<now, rm, call, hist, config, sanitizer, providers, cap,
                 supabase>>

\* the delays one executeWithRetry call computes, attempt after attempt,
\* while every attempt fails: one after each attempt but the last
CalculateDelay ==
  \E jitterPercent \in JitterPercents :
    /\ arg.fn = "calculateDelay"
    /\ SleepsAfter(Len(ret.v), [policy |-> arg.policy])
    /\ ret' = [t |-> "delays",
               v |-> Append(ret.v, calculateDelay(arg.policy, Len(ret.v),
                                                  jitterPercent))]
    /\ UNCHANGED <<now, rm, call, hist, config, sanitizer, providers, cap,
                   arg, supabase>>

NextFn ==
  \/ ConstructErrorLogger
  \/ ConstructProvider
  \/ Sanitize
  \/ SanitizeAgain
  \/ CalculateDelay

SpecFn == InitFn /\ [][NextFn]_vars

\* ------------------------------------------ construction and configure
\* retry fields given to the constructor and to configure: inside and outside
\* the ranges validate accepts
RetryPartials ==
  { [retry |-> p] :
      p \in { [maxAttempts |-> 0], [maxAttempts |-> 2], [maxAttempts |-> 6],
              [baseDelay |-> 50], [baseDelay |-> 200],
              [maxDelay |-> 500], [maxDelay |-> 1000],
              [baseDelay |-> 40000] } }

\* new ErrorLogger(user) that returned normally, nothing captured yet
InitConfig ==
  /\ now = 0
  /\ hist = NoHistory
  /\ call = AsSeq([s \in Slots |-> FreeCall])
  /\ cap = AsSeq([c \in 1..MaxCaps |-> FreeCapture])
  /\ arg = NoArg
  /\ ret = Undefined
  /\ supabase = NoSupabase
  /\ \E user \in { Spread([discord |-> "valid"], p) :
                      p \in RetryPartials \cup {NoFields} } :
       LET new == NewErrorLogger(NoFields, user) IN
       /\ new.ret = Returned
       /\ config = new.config
       /\ sanitizer = new.sanitizer
       /\ rm = new.rm
       /\ providers = new.providers

\* logger.configure(partial), partial naming retry fields, the enabled flag
\* or a Slack webhook
Reconfigure ==
  \E partial \in RetryPartials \cup Partials : ConfigureWith(partial)

NextConfig == Reconfigure

SpecConfig == InitConfig /\ [][NextConfig]_vars

\* ------------------------------------------------ one provider's send
\* provider.send(notification) of a provider with a RetryManager of its own,
\* one send at a time; arg holds the response its latest post got
SendPolicies == { [maxAttempts |-> n] : n \in MinMaxAttempts..MaxMaxAttempts }

InitSend ==
  /\ now = 0
  /\ \E p \in SendPolicies : rm = << RetryManager(mergeRetryPolicy(p)) >>
  /\ \E name \in {"Discord", "Slack"} : providers = << Provider(name, 1) >>
  /\ call = AsSeq([s \in Slots |-> FreeCall])
  /\ hist = NoHistory
  /\ config = InitialConfig(NoFields)
  /\ sanitizer = DataSanitizer(NoFields)
  /\ cap = AsSeq([c \in 1..MaxCaps |-> FreeCapture])
  /\ arg = NoArg
  /\ ret = Undefined
  /\ supabase = NoSupabase

SendFrame == UNCHANGED <<hist, config, sanitizer, providers, cap, ret, supabase>>

\* providers[1].send(notification)
SendCall ==
  /\ ~InFlight(call[1])
  /\ LET e == Enter(1, rm[1], now) IN
       /\ call' = [call EXCEPT ![1] = [e[1] EXCEPT !.owner = providers[1].name,
                                                   !.onRetry = TRUE]]
       /\ rm' = [rm EXCEPT ![1] = e[2]]
  /\ arg' = NoArg
  /\ UNCHANGED now
  /\ SendFrame

\* axios.post settles with a response, or with an error for a status that
\* is not 2xx or no response at all
SendTransmit ==
  \E resp \in Responses :
    /\ call[1].pc = "inflight"
    /\ LET e == PostOutcome(call[1], rm[1], resp, now) IN
         /\ call' = [call EXCEPT ![1] = e[1]]
         /\ rm' = [rm EXCEPT ![1] = e[2]]
    /\ arg' = [fn |-> "post", resp |-> resp]
    /\ UNCHANGED now
    /\ SendFrame

\* the sleep of the send ends
SendWake ==
  /\ call[1].pc = "sleeping"
  /\ LET e == OnWake(call[1], rm[1], now) IN
       /\ call' = [call EXCEPT ![1] = e[1]]
       /\ rm' = [rm EXCEPT ![1] = e[2]]
  /\ UNCHANGED <<now, arg>>
  /\ SendFrame

SendTick ==
  /\ Tick(ResetWindowMs, MaxNow)
  /\ UNCHANGED <<rm, call, arg>>
  /\ SendFrame

NextSend == SendCall \/ SendTransmit \/ SendWake \/ SendTick

SpecSend == InitSend /\ [][NextSend]_vars

\* ------------------------------------------- SupabaseErrorLogger in use
SupabaseConfigs ==
  { Spread([supabaseUrl |-> "https://test.supabase.co",
            supabaseKey |-> "test-key"], a) :
      a \in { NoFields, [enabled |-> FALSE] } }

SupabasePartials ==
  { [enabled |-> FALSE], [enabled |-> TRUE, tableName |-> "t2"],
    [logLevel |-> "info"] }

InitSupabase ==
  /\ now = 0
  /\ rm = <<>>
  /\ call = AsSeq([s \in Slots |-> FreeCall])
  /\ hist = NoHistory
  /\ config = InitialConfig(NoFields)
  /\ sanitizer = DataSanitizer(NoFields)
  /\ providers = <<>>
  /\ cap = AsSeq([c \in 1..MaxCaps |-> FreeCapture])
  /\ arg = NoArg
  /\ ret = Undefined
  /\ supabase = NoSupabase

SupabaseFrame ==
  UNCHANGED <<now, rm, call, hist, config, sanitizer, providers, cap, arg, ret>>

\* logger = new SupabaseErrorLogger(cfg)
SupabaseConstruct ==
  \E cfg \in SupabaseConfigs :
    /\ supabase.capture.pc # "awaiting"
    /\ supabase.instance # 0 \/ Len(supabase.objects) < MaxObjects
    /\ supabase' = SupabaseNew(supabase, cfg)
    /\ SupabaseFrame

\* SupabaseErrorLogger.resetInstance()
SupabaseResetInstance ==
  /\ supabase.instance # 0
  /\ supabase' = [supabase EXCEPT !.instance = 0]
  /\ SupabaseFrame

\* logger.configure(partial)
SupabaseConfigure ==
  \E partial \in SupabasePartials :
    /\ supabase.logger # 0
    /\ supabase' = SupabaseConfigured(supabase, partial)
    /\ SupabaseFrame

\* logger.captureMessage(message, level, metadata), one call at a time
SupabaseCaptureMessage ==
  /\ supabase.logger # 0 /\ supabase.capture.pc # "awaiting"
  /\ supabase' = SupabaseCaptured(supabase, "info")
  /\ SupabaseFrame

\* logger.captureException(error, metadata), one call at a time
SupabaseCaptureException ==
  /\ supabase.logger # 0 /\ supabase.capture.pc # "awaiting"
  /\ supabase' = SupabaseCaptured(supabase, "error")
  /\ SupabaseFrame

\* the fetch of the pending capture ends
SupabaseRespond ==
  \E response \in SupabaseResponses :
    /\ supabase.capture.pc = "awaiting"
    /\ supabase' = SupabaseSettled(supabase, response)
    /\ SupabaseFrame

NextSupabase ==
  \/ SupabaseConstruct
  \/ SupabaseResetInstance
  \/ SupabaseConfigure
  \/ SupabaseCaptureMessage
  \/ SupabaseCaptureException
  \/ SupabaseRespond

SpecSupabase == InitSupabase /\ [][NextSupabase]_vars

\* ------------------------------------------- setEnvironment between captures
\* the names handed to setEnvironment
Environments == {"production", "staging"}

setEnvironment_Ignored(cfg, environment) == cfg

\* ConfigManager.setEnvironment: "this.config.environment = environment"
setEnvironment(cfg, environment) == [cfg EXCEPT !.environment = environment]

\* logger.setEnvironment(environment)
SetEnvironment ==
  \E environment \in Environments :
    /\ arg' = [fn |-> "setEnvironment", environment |-> environment]
    /\ config' = setEnvironment(config, environment)
    /\ UNCHANGED <<now, rm, call, hist, sanitizer, providers, cap,
                   ret, supabase>>

NextEnv ==
  \/ CaptureMessage
  \/ CaptureException
  \/ Transmit
  \/ Wake
  \/ CaptureSettle
  \/ SetEnvironment

SpecEnv == Init /\ [][NextEnv]_vars

\* =========================================================== claims C5-C7

\* C5: after 5 consecutive calls on one manager that each exhausted their
\* attempts (every maxAttempts in 1..5), the breaker has opened; a call made
\* less than 60000 ms after it opened rejects with the circuit-open error
\* and invokes the operation zero times, a call made 60000 ms or more after
\* it opened invokes the operation again.
C5_AfterFiveExhaustedCalls ==
  (call[1].pc # "free" /\ hist.entryStreak >= StreakLen) =>
    /\ hist.entryOpenedAt >= 0
    /\ IF hist.entryAt - hist.entryOpenedAt < ResetWindowMs
         THEN /\ call[1].pc = "rejected"
              /\ call[1].error = CircuitOpenError
              /\ call[1].invoked = 0
         ELSE call[1].invoked >= 1

C5_Witness ==
  /\ hist.entryStreak >= StreakLen
  /\ call[1].pc = "rejected"
  /\ call[1].error = CircuitOpenError
  /\ hist.entryAt - hist.entryOpenedAt = TickMs
  /\ rm[1].policy.maxAttempts = 1

\* C6: a call that passed the breaker test and whose operation fails at every
\* invocation invokes it exactly maxAttempts times: while fewer invocations
\* have failed the call is asleep before the next one, and with the
\* maxAttempts-th failure it rejects with the error of that last invocation.
C6_ExhaustsAfterMaxAttempts ==
  \A s \in Slots :
    (call[s].invoked >= 1 /\ call[s].failed = call[s].invoked) =>
      IF call[s].invoked < rm[call[s].rm].policy.maxAttempts
        THEN call[s].pc = "sleeping"
        ELSE /\ call[s].invoked = rm[call[s].rm].policy.maxAttempts
             /\ call[s].pc = "rejected"
             /\ call[s].error = OpError("operation failed", call[s].invoked)

C6_Witness ==
  /\ rm[1].policy.maxAttempts = 3
  /\ call[1].pc = "rejected"
  /\ call[1].invoked = 3 /\ call[1].failed = 3
  /\ call[1].error = OpError("operation failed", 3)
  /\ rm[1].circuitBreakerOpen /\ hist.openedAt = now /\ now > 0

\* C7: a call has at most one invocation that did not fail, and it is the
\* last one: after k failures and a success at invocation k+1 <= maxAttempts
\* the call is resolved with the value of that invocation, having invoked the
\* operation exactly k+1 times.
C7_SuccessEndsTheCall ==
  \A s \in Slots :
    (call[s].invoked >= 1 /\ call[s].failed < call[s].invoked) =>
      /\ call[s].invoked = call[s].failed + 1
      /\ call[s].invoked <= rm[call[s].rm].policy.maxAttempts
      /\ \/ call[s].pc = "inflight"
         \/ call[s].pc = "resolved" /\ call[s].result = call[s].invoked

C7_Witness ==
  /\ rm[1].policy.maxAttempts = 3
  /\ call[1].pc = "resolved"
  /\ call[1].failed = 2 /\ call[1].invoked = 3 /\ call[1].result = 3

\* ========================================================== claims C1-C4

SendOf(c, i) == call[cap[c].sends[i]]

\* an invocation of the operation happens in this step, for the call in slot s
Invokes(s) == call'[s].pc = "inflight" /\ call[s].pc # "inflight"

\* C1: for every successfully constructed, enabled ErrorLogger and every
\* combination of provider outcomes, the promise of captureException and of
\* captureMessage resolves; it never rejects.
C1_CaptureNeverRejects == \A c \in 1..MaxCaps : cap[c].pc # "rejected"

\* C2: with Discord and Slack both configured, failures of one provider never
\* prevent the other from attempting delivery: a provider none of whose own
\* transmissions ever failed has its transmission invoked in every capture
\* (its breaker state is changed by its own attempts only).
C2_OtherProviderStillAttempts ==
  \A c \in 1..MaxCaps : \A i \in 1..Len(cap[c].sends) :
    (Len(cap[c].sends) = 2 /\ SendOf(c, i).owner \notin hist.failedProviders)
      => SendOf(c, i).invoked >= 1

\* C3: in a single capture on a freshly constructed ErrorLogger with two
\* providers, one whose transmissions all fail and one whose transmissions
\* all succeed, the call does not reject, the succeeding provider's
\* operation is invoked exactly once, and when the call has resolved that one
\* transmission has succeeded and the failing provider has exhausted its
\* attempts -- in every interleaving of the two sends.
C3_FanOutIsolation ==
  \A c \in 1..MaxCaps : \A i, j \in 1..Len(cap[c].sends) :
    ( /\ cap[c].fresh
      /\ i # j
      /\ SendOf(c, i).pc # "resolved"
      /\ SendOf(c, j).failed = 0 )
    => /\ cap[c].pc \in {"awaiting", "resolved"}
       /\ SendOf(c, j).invoked = 1
       /\ SendOf(c, j).pc \in {"inflight", "resolved"}
       /\ cap[c].pc = "resolved" =>
            /\ SendOf(c, j).pc = "resolved"
            /\ SendOf(c, i).pc = "rejected"
            /\ SendOf(c, i).failed = rm[SendOf(c, i).rm].policy.maxAttempts

C3_Witness ==
  /\ cap[1].pc = "resolved" /\ cap[1].fresh /\ Len(cap[1].sends) = 2
  /\ SendOf(1, 1).owner = "Discord" /\ SendOf(1, 1).pc = "rejected"
  /\ SendOf(1, 1).failed = 5
  /\ SendOf(1, 2).owner = "Slack" /\ SendOf(1, 2).pc = "resolved"
  /\ SendOf(1, 2).invoked = 1
  /\ rm[1].circuitBreakerOpen

\* C4: the operation is never invoked while the circuit breaker of its
\* manager is open (opened less than 60000 ms ago), also when several
\* executeWithRetry calls are in flight on the same manager.
C4_NoInvocationWhileOpen ==
  [][ \A s \in Slots :
        Invokes(s) => ~BreakerRejects(rm[call'[s].rm], now) ]_vars

\* ========================================================= claims C8-C10

\* C8: whenever a provider's send rejects to the Dispatcher, a fallback
\* report of the notification has been written earlier in that send, for
\* every cause of the rejection, the open circuit breaker included.
C8_FallbackBeforeRejection ==
  \A s \in Slots :
    (call[s].owner # "direct" /\ call[s].pc = "rejected")
      => call[s].fallbacks >= 1

\* C9: in every enabled capture that reaches a provider, sanitize has been
\* called on the built notification and every provider is given its result,
\* never the unsanitized object; for captureMessage('User logged in', 'info',
\* {password: 'abc123'}) under the default sanitization the providers get
\* metadata.password = '[REDACTED]' and severity = 'info'.
C9_ProvidersGetSanitized ==
  \A c \in 1..MaxCaps :
    (cap[c].sends # <<>>) =>
      /\ cap[c].enabled
      /\ cap[c].sanitizeCalls = 1
      /\ cap[c].sent = sanitize(cap[c].sanitizer, cap[c].notification)
      /\ ( /\ Get(cap[c].notification, "message") = Str(<<"User logged in">>)
           /\ cap[c].sanitizer = DataSanitizer(NoFields) )
         => /\ Get(Get(cap[c].notification, "metadata"), "password")
                 = Str(<<"abc123">>)
            /\ Get(Get(cap[c].sent, "metadata"), "password") = Str(Marker)
            /\ Get(cap[c].sent, "severity") = Str(<<"info">>)

C9_Witness ==
  /\ cap[1].pc = "awaiting" /\ Len(cap[1].sends) = 2
  /\ SendOf(1, 1).pc = "inflight" /\ SendOf(1, 2).pc = "inflight"
  /\ Get(cap[1].notification, "message") = Str(<<"User logged in">>)
  /\ Get(Get(cap[1].sent, "metadata"), "password") = Str(Marker)

\* C10: while the ErrorLogger is disabled (at construction or by configure),
\* a capture call resolves with no sanitizer invocation and no provider send,
\* and the step that makes it invokes no operation and leaves the
\* RetryManager of every provider as it was.
C10_DisabledIsNoOp ==
  /\ [](\A c \in 1..MaxCaps :
          (cap[c].pc # "free" /\ ~cap[c].enabled) =>
            /\ cap[c].pc \in {"awaiting", "resolved"}
            /\ cap[c].sanitizeCalls = 0
            /\ cap[c].sends = <<>>)
  /\ [][ \A c \in 1..MaxCaps :
          (CaptureDone(cap[c]) /\ ~CaptureDone(cap'[c]) /\ ~config.enabled) =>
            /\ \A s \in Slots : ~Invokes(s)
            /\ \A i \in 1..Len(providers) :
                 rm'[providers[i].retryManager] = rm[providers[i].retryManager]
        ]_vars

C10_Witness ==
  /\ cap[1].pc = "resolved" /\ ~cap[1].enabled
  /\ ~config.enabled /\ Len(rm) = 2 /\ Len(providers) = 2
  /\ now > 0

\* ======================================================== claims C11-C13

\* a capture call is made in this step, as activation c
Starts(c) == CaptureDone(cap[c]) /\ cap'[c] # cap[c] /\ cap'[c].pc # "free"

\* the provider names a configuration asks for, in construction order
ConfiguredNames(cfg) ==
  (IF cfg.discord # "undefined" THEN << "Discord" >> ELSE <<>>)
    \o (IF cfg.slack # "undefined" THEN << "Slack" >> ELSE <<>>)

\* C11: a configure(partial) call that returns normally leaves the merged
\* configuration (the fields partial names take its values, the others keep
\* theirs) and a sanitizer and a provider set rebuilt from it; a capture call
\* made while that configure is the latest one reads the enabled flag and the
\* environment of the merged configuration, sanitizes with the rebuilt
\* sanitizer and sends to exactly the rebuilt providers.
C11_ConfigureTakesEffect ==
  /\ [][ (Len(rm') > Len(rm) /\ hist'.configure = "returned") =>
          /\ \E partial \in Partials :
               /\ \A k \in DOMAIN partial : config'[k] = partial[k]
               /\ \A k \in (DOMAIN config) \ (DOMAIN partial) :
                    config'[k] = config[k]
          /\ sanitizer' = DataSanitizer(config'.sanitization)
          /\ rm'[Len(rm')] = RetryManager(config'.retry)
          /\ Len(providers') = Len(ConfiguredNames(config'))
          /\ \A i \in 1..Len(providers') :
               /\ providers'[i].name = ConfiguredNames(config')[i]
               /\ providers'[i].retryManager = Len(rm') ]_vars
  /\ [][ \A c \in 1..MaxCaps :
          (Starts(c) /\ hist.configure = "returned") =>
            /\ cap'[c].enabled = config.enabled
            /\ Get(cap'[c].notification, "environment")
                 = Str(<< config.environment >>)
            /\ cap'[c].enabled =>
                 /\ cap'[c].sanitizer = DataSanitizer(config.sanitization)
                 /\ cap'[c].sanitizeCalls = 1
                 /\ cap'[c].pc = "awaiting" =>
                      /\ Len(cap'[c].sends) = Len(ConfiguredNames(config))
                      /\ \A i \in 1..Len(cap'[c].sends) :
                           LET send == call'[cap'[c].sends[i]] IN
                           /\ send.owner = ConfiguredNames(config)[i]
                           /\ send.rm = Len(rm) ]_vars

C11_Witness ==
  /\ hist.configure = "returned" /\ Len(rm) = 2
  /\ cap[1].pc = "resolved" /\ Len(cap[1].sends) = 2
  /\ SendOf(1, 1).owner = "Discord" /\ SendOf(1, 1).pc = "resolved"
  /\ SendOf(1, 1).rm = 2
  /\ SendOf(1, 2).owner = "Slack" /\ SendOf(1, 2).pc = "resolved"
  /\ SendOf(1, 2).rm = 2

\* the webhook configuration of platform k that the constructor is given,
\* the user's before the environment's
GivenHook(k) ==
  IF Has(arg.user, k) THEN arg.user[k]
  ELSE IF Has(arg.env, k) THEN arg.env[k] ELSE "undefined"

\* C12: constructing an ErrorLogger throws, with no RetryManager or provider
\* left behind and no send started, whenever no provider is configured or a
\* configured webhook URL is absent, is not https or lacks the platform's
\* webhook host; constructing a Discord or Slack provider from such a webhook
\* configuration throws as well.
C12_InvalidConstructionThrows ==
  /\ (arg.fn = "ErrorLogger" /\ ret.t # "pending") =>
       LET d == GivenHook("discord")
           s == GivenHook("slack")
       IN ( \/ (d = "undefined" /\ s = "undefined")
            \/ d \in {"empty", "http", "otherhost", "hostonly"}
            \/ s \in {"empty", "http", "otherhost", "hostonly"} )
          => /\ IsThrown(ret)
             /\ providers = <<>> /\ rm = <<>>
             /\ \A sl \in Slots : call[sl].pc = "free"
  /\ (arg.fn = "Provider" /\ ret.t # "pending") =>
       (arg.hook # "valid" => IsThrown(ret))

C12_Witness ==
  /\ arg.fn = "ErrorLogger"
  /\ GivenHook("discord") = "hostonly" /\ GivenHook("slack") = "undefined"
  /\ ret = Throw("Invalid Discord configuration")

C14_SanitizeIdempotent ==
  (arg.fn = "sanitize" /\ arg.pass = 2 /\ ret.t # "pending") =>
    ret = arg.data

\* the fragments the three default key patterns match
SensitiveNames ==
  { "password", "passwd", "pwd", "Password", "token", "bearer", "jwt",
    "api_key", "apiKey", "secret", "private_key" }

\* key contains a match of a key pattern that is active in the sanitizer san
NamesSensitive(san, key) ==
  \E i \in 1..Len(key) :
    \/ ~san.excludeDefaults /\ key[i] \in SensitiveNames
    \/ \E p \in 1..Len(san.customPatterns) :
         key[i] \in san.customPatterns[p].matches

\* C15: when sanitize (sanitization enabled) returns for a mapping, every
\* key of the mapping that matches an active sensitive-name pattern carries
\* exactly the string '[REDACTED]' in the result, whatever its value was
\* (string, number, array, nested mapping), and the result has the same keys
\* in the same order; {password: {a: {b: 'x'}}} gives {password: '[REDACTED]'}.
C15_SensitiveKeyRedactsWholeValue ==
  ( /\ arg.fn = "sanitize" /\ arg.pass = 1
    /\ ret.t \notin {"pending", "throw"}
    /\ sanitizer.enabled
    /\ arg.data.t = "obj" ) =>
    /\ ret.t = "obj"
    /\ Len(ret.v) = Len(arg.data.v)
    /\ \A i \in 1..Len(arg.data.v) :
         /\ ret.v[i].k = arg.data.v[i].k
         /\ NamesSensitive(sanitizer, arg.data.v[i].k)
              => ret.v[i].val = Str(Marker)
    /\ ( /\ arg.data = Obj(<< Entry(<<"password">>, Nested) >>)
         /\ ~sanitizer.excludeDefaults )
       => ret = Obj(<< Entry(<<"password">>, Str(Marker)) >>)

C15_Witness ==
  /\ arg.fn = "sanitize" /\ arg.pass = 1
  /\ sanitizer = DataSanitizer(NoFields)
  /\ arg.data = Obj(<< Entry(<<"password">>, Nested) >>)
  /\ ret = Obj(<< Entry(<<"password">>, Str(Marker)) >>)

\* C16: for every input and every sanitization configuration the
\* constructor accepts, customPatterns strings included, sanitize returns a
\* value and never throws.
C16_SanitizeNeverThrows ==
  (arg.fn = "sanitize" /\ ret.t # "pending") => ret.t # "throw"

\* C17: with sanitization disabled sanitize returns its input unchanged,
\* sensitive keys and values included, for every input and whatever the
\* custom patterns and excludeDefaults are.
C17_DisabledIsIdentity ==
  ( /\ arg.fn = "sanitize"
    /\ ret.t # "pending"
    /\ ~sanitizer.enabled ) => ret = arg.data

C17_Witness ==
  /\ arg.fn = "sanitize" /\ arg.pass = 1
  /\ ~sanitizer.enabled
  /\ sanitizer.customPatterns = << InvalidPattern >>
  /\ arg.data = Obj(<< Entry(<<"password">>, Nested) >>)
  /\ ret = arg.data

\* ======================================================== claims C18-C19
\* C18 (as stated): a capture made on the object that
\* new SupabaseErrorLogger({...config, enabled: false}) evaluated to, with no
\* configure call in between, calls no fetch, whatever was constructed,
\* captured and configured before that new-expression.
C18_DisabledNewNeverTransmits ==
  ( /\ supabase.capture.pc # "free"
    /\ supabase.capture.untouched
    /\ Has(supabase.capture.asked, "enabled")
    /\ ~supabase.capture.asked.enabled )
  => ~supabase.capture.transmitted

\* C19: a capture made while the latest configure call naming enabled gave
\* false transmits nothing and one made while it gave true transmits; and a
\* step that changes an object's configuration is a merge: each field takes
\* the value some configure argument names for it, and keeps its value when
\* that argument does not name it.
C19_ConfigureMergesAndGates ==
  /\ [](supabase.capture.pc # "free" =>
          /\ supabase.capture.wanted = "off" => ~supabase.capture.transmitted
          /\ supabase.capture.wanted = "on" => supabase.capture.transmitted)
  /\ [][ \A i \in 1..Len(supabase.objects) :
           LET a == supabase.objects[i].config
               b == supabase'.objects[i].config
           IN a # b =>
                \E partial \in SupabasePartials :
                  /\ DOMAIN b = DOMAIN a
                  /\ \A f \in DOMAIN a :
                       b[f] = IF Has(partial, f) THEN partial[f] ELSE a[f] ]_vars

\* an object constructed disabled, configured on again with a new table name,
\* has transmitted a capture and kept the fields configure never named
C19_Witness ==
  /\ supabase.logger # 0
  /\ supabase.capture.pc = "resolved"
  /\ supabase.capture.wanted = "on"
  /\ supabase.capture.transmitted
  /\ Has(supabase.capture.asked, "enabled")
  /\ supabase.objects[supabase.logger].config.tableName = "t2"
  /\ supabase.objects[supabase.logger].config.logLevel = "info"
  /\ supabase.objects[supabase.logger].config.supabaseKey = "test-key"

\* ============================================================ claim C20
\* C20: the breaker of a manager goes from closed to open only in the step in
\* which a call on it leaves the retry loop with all attempts failed, and it
\* is open after such a step exactly when the failure counter is then at
\* least 5, whatever maxAttempts is; lastFailureTime is then the time of that
\* step; a step in which a call resolves never opens the breaker.
C20_OpensOnlyAtExhaustion ==
  [][ LET m == rm[1]
          m2 == rm'[1]
          exhausts == InFlight(call[1]) /\ Exhausted(call'[1])
      IN /\ Opens(m, m2) =>
              /\ exhausts
              /\ m2.failureCount >= FailureThreshold
              /\ m2.lastFailureTime = now
         /\ exhausts =>
              IF m2.failureCount >= FailureThreshold
                THEN m2.circuitBreakerOpen /\ m2.lastFailureTime = now
                ELSE ~m2.circuitBreakerOpen
         /\ (InFlight(call[1]) /\ call'[1].pc = "resolved") => ~Opens(m, m2) ]_vars

\* maxAttempts = 2: the third exhausted call brings the counter to 6 and
\* opens the breaker, at a time later than the start
C20_Witness ==
  /\ rm[1].policy.maxAttempts = 2
  /\ Exhausted(call[1])
  /\ rm[1].circuitBreakerOpen
  /\ rm[1].failureCount = 6
  /\ rm[1].lastFailureTime = now
  /\ hist.streak = 3
  /\ now = 2 * TickMs

\* ============================================================ claim C21
\* C21 (as stated): whenever the breaker's flag is true, less than 60000 ms
\* have passed since the breaker was opened.
C21_OpenOnlyWithinWindow ==
  rm[1].circuitBreakerOpen => now - rm[1].lastFailureTime < ResetWindowMs

\* ============================================================ claim C22
\* C22: a call made with the breaker open and 60000 ms or more passed since
\* it opened is let through, and at its first attempt the breaker is closed
\* and the failure counter is 0; a call starts its attempts with the breaker
\* open in no other case; and once a call was let through like that, the
\* breaker is open again only after at least 5 attempts failed with no
\* success among them.
C22_HalfOpenResets ==
  /\ [](hist.halfOpened /\ rm[1].circuitBreakerOpen =>
          hist.run >= FailureThreshold)
  /\ [][ LET entered == ~InFlight(call[1]) /\ call'[1] # call[1]
              elapsed == now - hist.openedAt >= ResetWindowMs
          IN /\ (entered /\ rm[1].circuitBreakerOpen /\ elapsed) =>
                  /\ call'[1].pc = "inflight"
                  /\ call'[1].invoked = 1 /\ call'[1].failed = 0
                  /\ ~rm'[1].circuitBreakerOpen
                  /\ rm'[1].failureCount = 0
             /\ (entered /\ rm[1].circuitBreakerOpen /\ InFlight(call'[1])) =>
                  elapsed ]_vars

\* maxAttempts = 1: after a call was let through 60000 ms after the first
\* opening, the fifth failed call since then has just reopened the breaker
C22_Witness ==
  /\ hist.halfOpened
  /\ rm[1].policy.maxAttempts = 1
  /\ rm[1].circuitBreakerOpen
  /\ hist.run = FailureThreshold
  /\ hist.openedAt = now
  /\ Exhausted(call[1])

\* ============================================================ claim C23
\* C23: the step in which an attempt of a call succeeds leaves the failure
\* counter of the call's manager at 0, whatever other calls are pending on
\* that manager, and the step in which an attempt fails raises the counter
\* by exactly 1.
C23_CounterFollowsAttempts ==
  [][ \A s \in Slots :
        LET r == call[s].rm IN
        call[s].pc = "inflight" =>
          /\ call'[s].pc = "resolved" => rm'[r].failureCount = 0
          /\ call'[s].failed = call[s].failed + 1 =>
                rm'[r].failureCount = rm[r].failureCount + 1 ]_vars

\* a send resolved at its second attempt and left the counter at 0 although
\* the other provider's send, on the same manager, had exhausted its attempts
C23_Witness ==
  \E s, u \in Slots :
    /\ s # u
    /\ call[s].pc = "resolved" /\ call[s].failed = 1
    /\ call[u].rm = call[s].rm /\ Exhausted(call[u])
    /\ rm[call[s].rm].failureCount = 0

\* ============================================================ claim C24
\* C24: a call given onRetry has invoked it once for each attempt that failed
\* so far, the k-th time with k and the error of the k-th attempt, so also
\* for the last allowed attempt and not for an attempt that succeeded; a
\* call given none invoked nothing; and right after a failed attempt the
\* call sleeps if and only if fewer than maxAttempts attempts have failed,
\* and is rejected otherwise.
C24_OnRetryPerFailure ==
  \A s \in Slots :
    LET c == call[s] IN
    c.invoked >= 1 =>
      /\ Len(c.retries) = IF c.onRetry THEN c.failed ELSE 0
      /\ \A k \in 1..Len(c.retries) :
           c.retries[k] = << k, OpError("operation failed", k) >>
      /\ c.pc = "sleeping" => c.failed = c.invoked
      /\ c.failed = c.invoked =>
           IF c.failed < rm[c.rm].policy.maxAttempts
             THEN c.pc = "sleeping"
             ELSE c.pc = "rejected"

\* maxAttempts = 3 and three failures: onRetry ran for the last attempt too
\* and the call rejected with that attempt's error
C24_Witness ==
  /\ rm[1].policy.maxAttempts = 3
  /\ call[1].onRetry
  /\ call[1].pc = "rejected" /\ call[1].invoked = 3
  /\ Len(call[1].retries) = 3
  /\ call[1].retries[3] = << 3, call[1].error >>

\* ======================================================== claims C25-C26
\* C25: the delay computed after the failed attempt with 0-based index k is
\* min(baseDelay * 2^k, maxDelay) without jitter, and with jitter it is
\* baseDelay * 2^k times a factor between 0.75 and 1.25, cut down to
\* maxDelay; it never exceeds maxDelay.  (Delays in hundredths of a ms.)
C25_DelayFormula ==
  arg.fn = "calculateDelay" =>
    \A i \in 1..Len(ret.v) :
      LET p == arg.policy
          raw == p.baseDelay * (2 ^ (i - 1))
      IN /\ ret.v[i] <= p.maxDelay * 100
         /\ IF p.jitter
              THEN \E f \in 75..125 :
                     ret.v[i] = IF raw * f <= p.maxDelay * 100
                                  THEN raw * f ELSE p.maxDelay * 100
              ELSE ret.v[i] = 100 * (IF raw <= p.maxDelay THEN raw
                                                           ELSE p.maxDelay)

\* jitter on, baseDelay 10000, maxDelay 30000: 7500 ms after the first
\* failure, and the cap after the fourth although the factor was below 1
C25_Witness ==
  /\ arg.fn = "calculateDelay"
  /\ arg.policy.jitter
  /\ arg.policy.baseDelay = 10000 /\ arg.policy.maxDelay = 30000
  /\ Len(ret.v) = 4
  /\ ret.v[1] = 750000
  /\ ret.v[4] = 3000000

\* C26: without jitter the delays of one call never decrease from one
\* attempt to the next, also once the cap maxDelay is reached.
C26_DelaysNonDecreasing ==
  (arg.fn = "calculateDelay" /\ ~arg.policy.jitter) =>
    \A i \in 1..(Len(ret.v) - 1) : ret.v[i] <= ret.v[i + 1]

\* baseDelay 10000, maxDelay 30000, five attempts: 10 s, 20 s, then the cap
\* twice
C26_Witness ==
  /\ arg.fn = "calculateDelay"
  /\ ~arg.policy.jitter
  /\ ret.v = << 1000000, 2000000, 3000000, 3000000 >>

\* ============================================================ claim C27
\* C27: a call never has more than one invocation of the operation that has
\* not settled, it has one exactly while it awaits the operation, and it
\* starts a further invocation only from its sleep after the previous
\* invocation failed.
C27_AttemptsSequential ==
  /\ [](\A s \in Slots :
          LET c == call[s]
              unsettled == c.invoked - c.failed
                             - (IF c.pc = "resolved" THEN 1 ELSE 0)
          IN /\ unsettled \in {0, 1}
             /\ unsettled = 1 <=> c.pc = "inflight")
  /\ [][ \A s \in Slots :
           (InFlight(call[s]) /\ call'[s].invoked = call[s].invoked + 1) =>
             /\ call[s].pc = "sleeping"
             /\ call[s].failed = call[s].invoked
             /\ call'[s].pc = "inflight" ]_vars

\* the third attempt is awaited, after two failures and two sleeps
C27_Witness ==
  /\ call[1].pc = "inflight"
  /\ call[1].invoked = 3 /\ call[1].failed = 2
  /\ call[1].attempt = 2

\* ============================================================ claim C28
\* C28: the step in which an enabled capture call begins to wait has started
\* the send of every configured provider, in provider order: each is
\* awaiting its first transmission or was refused by an open breaker; and
\* the capture's promise is resolved only when each of those sends has
\* settled, never while one of them awaits a transmission or sleeps.
C28_StartsAllThenWaitsForAll ==
  /\ [][ \A c \in 1..MaxCaps :
           (Starts(c) /\ cap'[c].enabled /\ cap'[c].pc = "awaiting") =>
             /\ Len(cap'[c].sends) = Len(providers)
             /\ \A i \in 1..Len(providers) :
                  LET send == call'[cap'[c].sends[i]] IN
                  /\ send.owner = providers[i].name
                  /\ \/ send.pc = "inflight" /\ send.invoked = 1
                     \/ send.pc = "rejected" /\ send.error = CircuitOpenError
                          /\ send.invoked = 0 ]_vars
  /\ [](\A c \in 1..MaxCaps :
          cap[c].pc = "resolved" =>
            \A i \in 1..Len(cap[c].sends) : Settled(SendOf(c, i)))

\* a capture resolved after Discord's send exhausted three attempts and
\* Slack's send succeeded at its second
C28_Witness ==
  /\ cap[1].pc = "resolved" /\ Len(cap[1].sends) = 2
  /\ SendOf(1, 1).owner = "Discord" /\ Exhausted(SendOf(1, 1))
  /\ SendOf(1, 1).failed = 3
  /\ SendOf(1, 2).owner = "Slack" /\ SendOf(1, 2).pc = "resolved"
  /\ SendOf(1, 2).invoked = 2

\* ============================================================ claim C29
\* C29 (as stated): when every transmission ends and every sleep ends, each
\* pending executeWithRetry call eventually settles, having invoked the
\* operation at most maxAttempts times, and each captureException /
\* captureMessage call made eventually resolves.
C29_EverythingSettles ==
  /\ \A s \in Slots : InFlight(call[s]) ~> Settled(call[s])
  /\ [](\A s \in Slots :
          call[s].rm # 0 => call[s].invoked <= rm[call[s].rm].policy.maxAttempts)
  /\ \A c \in 1..MaxCaps : (cap[c].pc # "free") ~> (cap[c].pc = "resolved")

\* ============================================================ claim C30
\* C30 (as stated): a fallback report is written to the console only in a
\* capture in which every configured provider's send finally failed: a send
\* that succeeded, at its first attempt or at a retry, wrote none, and a
\* resolved capture with a fallback report has no send that succeeded.
C30_FallbackOnlyAsLastResort ==
  \A c \in 1..MaxCaps : \A i \in 1..Len(cap[c].sends) :
    SendOf(c, i).fallbacks >= 1 =>
      /\ SendOf(c, i).pc # "resolved"
      /\ cap[c].pc = "resolved" =>
           \A j \in 1..Len(cap[c].sends) : SendOf(c, j).pc = "rejected"

\* ============================================================ claim C31
\* C31: when the post of a send settles, the attempt succeeded and the send
\* is resolved without a further invocation if the status is in 200..299
\* and, for Slack, the body is exactly "ok"; otherwise the attempt failed:
\* the failure counter rises by 1 and the send goes to sleep to be retried
\* if attempts remain, and is rejected if none does; a send that slept
\* invokes the transmission again.
C31_FailureClassification ==
  [][ LET c == call[1]
          d == call'[1]
          resp == arg'.resp
          ok == /\ resp.status >= 200 /\ resp.status <= 299
                /\ c.owner = "Slack" => resp.data = "ok"
      IN /\ (c.pc = "inflight" /\ d # c) =>
              IF ok
                THEN /\ d.pc = "resolved"
                     /\ d.invoked = c.invoked /\ d.failed = c.failed
                     /\ rm'[1].failureCount = 0
                ELSE /\ d.failed = c.failed + 1
                     /\ rm'[1].failureCount = rm[1].failureCount + 1
                     /\ d.invoked = c.invoked
                     /\ IF d.failed < rm[1].policy.maxAttempts
                          THEN d.pc = "sleeping"
                          ELSE d.pc = "rejected"
         /\ (c.pc = "sleeping" /\ d # c) =>
              d.pc = "inflight" /\ d.invoked = c.invoked + 1 ]_vars

\* Slack answered 200 with a body other than "ok": the attempt failed and
\* the send sleeps before its retry
C31_Witness ==
  /\ providers[1].name = "Slack"
  /\ arg = [fn |-> "post", resp |-> [status |-> 200, data |-> "invalid_payload"]]
  /\ call[1].pc = "sleeping"
  /\ call[1].failed = 1
  /\ rm[1].failureCount = 1

\* ============================================================ claim C32
\* C32 (as stated): a configure call that throws leaves the active
\* configuration, the sanitizer and the provider set as they were before it.
C32_FailedConfigureKeepsState ==
  [][ hist'.configure = "threw" =>
        /\ config' = config
        /\ sanitizer' = sanitizer
        /\ providers' = providers ]_vars

\* ============================================================ claim C33
\* C33: a configure call, returning or throwing, changes no pending capture,
\* no send and no existing RetryManager; while a capture waits, the object it
\* sent and its sends stay the same; and a step of a pending send keeps the
\* send on its provider and its manager and changes no other manager, so the
\* send goes on under the policy it started with, whatever configure did to
\* the enabled flag and the provider list meanwhile.
C33_InFlightUnaffectedByConfigure ==
  /\ [][ (config' # config \/ Len(rm') > Len(rm)) =>
           /\ call' = call
           /\ cap' = cap
           /\ \A r \in 1..Len(rm) : rm'[r] = rm[r] ]_vars
  /\ [][ \A c \in 1..MaxCaps :
           (cap[c].pc = "awaiting" /\ cap'[c].pc = "awaiting") =>
             /\ cap'[c].sent = cap[c].sent
             /\ cap'[c].sends = cap[c].sends ]_vars
  /\ [][ \A s \in Slots :
           (InFlight(call[s]) /\ call'[s] # call[s]) =>
             /\ call'[s].rm = call[s].rm
             /\ call'[s].owner = call[s].owner
             /\ call'[s].pc # "free"
             /\ \A r \in 1..Len(rm) : r # call[s].rm => rm'[r] = rm[r] ]_vars
  /\ [](\A s \in Slots :
          call[s].rm # 0 =>
            /\ call[s].invoked <= rm[call[s].rm].policy.maxAttempts
            /\ Exhausted(call[s]) =>
                 call[s].failed = rm[call[s].rm].policy.maxAttempts)

\* the logger was disabled and its providers rebuilt on a second manager
\* while a capture waited; the capture's send to Slack, on the first
\* manager, was retried and delivered, and its send to Discord exhausted
\* the five attempts of the first manager's policy
C33_Witness ==
  /\ ~config.enabled /\ hist.configure = "returned" /\ Len(rm) = 2
  /\ cap[1].pc = "awaiting" /\ cap[1].enabled /\ Len(cap[1].sends) = 2
  /\ SendOf(1, 1).rm = 1 /\ Exhausted(SendOf(1, 1)) /\ SendOf(1, 1).failed = 5
  /\ SendOf(1, 2).rm = 1 /\ SendOf(1, 2).pc = "resolved"
  /\ SendOf(1, 2).invoked = 2

\* ============================================================ claim C34
ValidPolicy(p) ==
  /\ p.maxAttempts >= 1 /\ p.maxAttempts <= 5
  /\ p.baseDelay >= 100
  /\ p.maxDelay >= p.baseDelay

\* C34 (as stated): after any constructions and configure calls, returning
\* or throwing, the retry policy of the active configuration and the policy
\* of every RetryManager of the logger have 1 <= maxAttempts <= 5,
\* baseDelay >= 100 and maxDelay >= baseDelay.
C34_PolicyAlwaysValid ==
  /\ ValidPolicy(config.retry)
  /\ \A r \in 1..Len(rm) : ValidPolicy(rm[r].policy)

\* what the result out of sanitizing in must be, level by level: an array
\* keeps its length and order, a mapping its keys; a key that matches an
\* active key pattern carries the marker, the other values are compared in
\* the same way; what is not a string, an array or a mapping is the same value
RECURSIVE DeepRedacted(_, _, _)
DeepRedacted(san, in, out) ==
  IF in.t = "str" THEN out.t = "str"
  ELSE IF in.t = "arr"
    THEN /\ out.t = "arr"
         /\ Len(out.v) = Len(in.v)
         /\ \A i \in 1..Len(in.v) : DeepRedacted(san, in.v[i], out.v[i])
  ELSE IF in.t = "obj"
    THEN /\ out.t = "obj"
         /\ Len(out.v) = Len(in.v)
         /\ \A i \in 1..Len(in.v) :
              /\ out.v[i].k = in.v[i].k
              /\ IF NamesSensitive(san, in.v[i].k)
                   THEN out.v[i].val = Str(Marker)
                   ELSE DeepRedacted(san, in.v[i].val, out.v[i].val)
  ELSE out = in

\* C35: with sanitization enabled and the default patterns active, in what
\* sanitize returns every key that matches a sensitive-name pattern, at any
\* depth reached through non-sensitive keys and array elements, carries
\* '[REDACTED]'; arrays keep their length and the order of their elements;
\* a value under a non-sensitive key that is not a string, an array or a
\* mapping (a number, null, undefined, a Date) is the value that was given.
C35_DeepRedaction ==
  ( /\ arg.fn = "sanitize" /\ arg.pass = 1
    /\ ret.t \notin {"pending", "throw"}
    /\ sanitizer.enabled /\ ~sanitizer.excludeDefaults ) =>
    DeepRedacted(sanitizer, arg.data, ret)

\* C36: captureException and captureMessage of an enabled
\* SupabaseErrorLogger never reject: when fetch or response.json() throws,
\* or the answer is not ok or has success = false, the failure is written
\* to the console and the promise the call returned resolves.
C36_SupabaseCaptureNeverRejects ==
  /\ supabase.capture.pc \in {"free", "awaiting", "resolved"}
  /\ ( /\ supabase.capture.pc = "resolved"
       /\ supabase.capture.transmitted
       /\ supabase.capture.response # "ok" )
     => /\ supabase.capture.response
             \in {"throws", "not ok", "success false"}
        /\ supabase.capture.reported
  /\ ( /\ supabase.capture.pc = "resolved"
       /\ supabase.capture.response = "ok" )
     => ~supabase.capture.reported

C36_Witness ==
  /\ supabase.capture.pc = "resolved"
  /\ supabase.capture.level = "error"
  /\ supabase.capture.transmitted
  /\ supabase.capture.response = "throws"
  /\ supabase.capture.reported

\* ============================================================ claim C37
\* C37: a configure call that returns discards the circuit-breaker state:
\* the providers it rebuilds share a manager whose breaker is closed and
\* whose failure counter is 0, also when the breaker of the manager before
\* was open with its 60000 ms window not elapsed; the first capture that
\* reaches the rebuilt providers invokes the transmission of every one of
\* them, none is refused with "Circuit breaker is open".
C37_ConfigureDiscardsBreaker ==
  /\ [][ (Len(rm') > Len(rm) /\ hist'.configure = "returned") =>
          LET new == rm'[Len(rm')] IN
          /\ new.failureCount = 0
          /\ ~new.circuitBreakerOpen
          /\ ~BreakerRejects(new, now')
          /\ \A i \in 1..Len(providers') :
               providers'[i].retryManager = Len(rm')
          /\ \A r \in 1..Len(rm) : rm'[r] = rm[r] ]_vars
  /\ [][ \A c \in 1..MaxCaps :
          ( /\ Starts(c)
            /\ hist.configure = "returned"
            /\ \A s \in Slots : call[s].rm # Len(rm)
            /\ cap'[c].enabled
            /\ cap'[c].pc = "awaiting" ) =>
            /\ Len(cap'[c].sends) = Len(providers)
            /\ \A i \in 1..Len(cap'[c].sends) :
                 LET send == call'[cap'[c].sends[i]] IN
                 /\ send.rm = Len(rm)
                 /\ send.pc = "inflight"
                 /\ send.invoked = 1 ]_vars

\* configure has returned while the manager before it was open and inside
\* its window; the rebuilt providers are on the new manager, and the logger
\* is enabled, so that the next capture reaches them
C37_Witness ==
  /\ hist.configure = "returned" /\ Len(rm) = 2
  /\ rm[1].circuitBreakerOpen /\ BreakerRejects(rm[1], now)
  /\ rm[2].failureCount = 0 /\ ~rm[2].circuitBreakerOpen
  /\ Len(providers) = 2
  /\ \A i \in 1..Len(providers) : providers[i].retryManager = 2
  /\ config.enabled
  /\ \A c \in 1..MaxCaps : CaptureDone(cap[c])

\* ============================================================ claim C38
\* C38: an executeWithRetry call that is refused because the breaker is
\* open leaves the manager as it was: the failure counter, the open flag and
\* the time stamp the window is measured from are the same after the call;
\* so while the breaker is open the stamp stays the time it opened, and a
\* call made 60000 ms or more after the opening is let through however many
\* calls were refused in between.
C38_RefusalLeavesManager ==
  /\ [][ ( /\ call'[1] # call[1]
           /\ call'[1].pc = "rejected"
           /\ call'[1].error = CircuitOpenError ) =>
          /\ call'[1].invoked = 0
          /\ rm' = rm ]_vars
  /\ [](rm[1].circuitBreakerOpen => rm[1].lastFailureTime = hist.openedAt)
  /\ [][ ( /\ \A s \in Slots : ~InFlight(call[s])
           /\ call'[1] # call[1]
           /\ InFlight(call'[1]) \/ call'[1].pc = "rejected"
           /\ call'[1].attempt = 0 /\ call'[1].failed = 0
           /\ rm[1].circuitBreakerOpen
           /\ now - hist.openedAt >= ResetWindowMs ) =>
          /\ call'[1].pc = "inflight"
          /\ call'[1].invoked = 1 ]_vars

\* a call refused later than the opening, the stamp still the opening time
C38_Witness ==
  /\ call[1].pc = "rejected" /\ call[1].error = CircuitOpenError
  /\ call[1].invoked = 0
  /\ rm[1].circuitBreakerOpen
  /\ hist.entryAt > hist.openedAt
  /\ now = hist.entryAt
  /\ rm[1].lastFailureTime = hist.openedAt
  /\ rm[1].failureCount >= FailureThreshold

\* ============================================================ claim C39
\* C39: setEnvironment(e) changes the environment tag and nothing else: the
\* enabled flag, the webhooks, the retry policy and the sanitization
\* settings of the configuration, the provider set, the sanitizer and every
\* manager's counter, flag and time stamp are as before, no manager is
\* constructed; a notification built by a capture that starts after the
\* call carries environment = e.
C39_SetEnvironmentOnlyTags ==
  /\ [][ (arg'.fn = "setEnvironment" /\ arg' # arg) =>
          /\ config'.environment = arg'.environment
          /\ \A k \in (DOMAIN config) \ {"environment"} :
               config'[k] = config[k]
          /\ DOMAIN config' = DOMAIN config
          /\ providers' = providers
          /\ sanitizer' = sanitizer
          /\ rm' = rm
          /\ call' = call /\ cap' = cap ]_vars
  /\ [](arg.fn = "setEnvironment" => config.environment = arg.environment)
  /\ [][ \A c \in 1..MaxCaps :
          (Starts(c) /\ arg.fn = "setEnvironment") =>
            Get(cap'[c].notification, "environment")
              = Str(<< arg.environment >>) ]_vars

\* a capture made after setEnvironment('production') on a logger whose
\* manager had counted a failure: tagged production, the counter kept
C39_Witness ==
  /\ arg.fn = "setEnvironment" /\ arg.environment = "production"
  /\ cap[1].pc = "awaiting" /\ Len(cap[1].sends) >= 1
  /\ Get(cap[1].notification, "environment") = Str(<< "production" >>)
  /\ SendOf(1, 1).pc = "sleeping"
  /\ rm[1].failureCount >= 1

====
